---------------------------- MODULE Spec2Model ----------------------------
(***************************************************************************)
(* A model of bs_python_utils: the numerical helpers of bsnputils.py, the  *)
(* distance covariances of distance_covariances.py, the Timer class of     *)
(* Timer.py and the optimization routines of bs_opt.py.                    *)
(*                                                                         *)
(* The routines of the first two are pure functions.  Each one is an       *)
(* operator computed as the Python code computes it; an action applies the *)
(* operator to inputs drawn from small sets and records the call in the    *)
(* variable `call`, a tuple <<name of the function, arguments, outcome>>,  *)
(* with a fourth component where a call leaves more than its outcome: the  *)
(* roots found by gauher and gauleg, the caller's arrays after the call,   *)
(* the statistics a bootstrap drew.  What a routine prints is not part of  *)
(* its outcome.  The variable `timer` holds the one Timer object of the    *)
(* process and the history of its calls; a method call changes it and      *)
(* records its outcome in `call`.                                          *)
(*                                                                         *)
(* An outcome is a pair <<status, value>>:                                 *)
(*   "return"  the function returned the Python value `value`;             *)
(*   "abort"   bs_error_abort / sys.exit ended the process, `value` is the *)
(*             message;                                                    *)
(*   "raise"   a Python exception left the function, `value` names it;     *)
(*   "hang"    the function's loop never ends;                             *)
(*   "running" the loop of acc_grad_descent or armijo_alpha, which the     *)
(*             model runs one pass per step, is at its test; `value` holds *)
(*             the local variables.                                        *)
(*                                                                         *)
(* Python values carry their type as a first component: <<"int", 3>>,      *)
(* <<"tuple", <<2, 3>>>>, <<"None">>, <<"ndarray", shape, data>>.          *)
(***************************************************************************)
EXTENDS Integers, Sequences, FiniteSets, TLC

VARIABLES call, timer

vars == <<call, timer>>

(***************************************************************************)
(* Bounds of the model.                                                    *)
(***************************************************************************)
MaxRank == 3      \* arrays of rank 0..MaxRank are passed to the validators
MaxDim == 2       \* every dimension of such an array is in 0..MaxDim

(***************************************************************************)
(* Calls and outcomes.                                                     *)
(***************************************************************************)
Op == call[1]

Args == call[2]

Out == call[3]

Status == call[3][1]

Value == call[3][2]

Idle == <<"idle", <<>>, <<"none", <<>> >> >>

Ret(v) == <<"return", v>>

Raise(exc) == <<"raise", exc>>

Hang == <<"hang", <<>> >>

\* bsutils.bs_error_abort(msg): prints the message and ends the process.
bs_error_abort(msg) == <<"abort", msg>>

Returned(out) == out[1] = "return"

Aborted(out) == out[1] = "abort"

PyNone == <<"None">>

PyInt(n) == <<"int", n>>

PyTuple(t) == <<"tuple", t>>

(***************************************************************************)
(* Python objects handed to the shape validators: either something that is *)
(* not a numpy array, or an array with a shape (a tuple of dimensions).    *)
(***************************************************************************)
NotAnArray == [isarr |-> FALSE, shape |-> <<>>]

ArrayOfShape(s) == [isarr |-> TRUE, shape |-> s]

\* all tuples of length r over the set S
RECURSIVE Tuples(_, _)
Tuples(S, r) ==
    IF r = 0 THEN {<<>>}
    ELSE {Append(t, e) : t \in Tuples(S, r - 1), e \in S}

Shapes == UNION {Tuples(0..MaxDim, r) : r \in 0..MaxRank}

Objects == {NotAnArray} \cup {ArrayOfShape(s) : s \in Shapes}

\* x.ndim
ndim(x) == Len(x.shape)

RECURSIVE Prod(_)
Prod(s) == IF s = <<>> THEN 1 ELSE Head(s) * Prod(Tail(s))

\* x.size
size(x) == Prod(x.shape)

\* fun_name is None or the caller's name
FunNames == {"None", "caller"}

\* fun_str = ["" if fun_name is None else fun_name + ":"], a one-element
\* list, as an f-string renders it
fun_str(fun_name) == IF fun_name = "None" THEN "['']" ELSE "['caller:']"

(***************************************************************************)
(* The shape validators.                                                   *)
(***************************************************************************)
test_vector(v, fun_name) ==
    IF ~v.isarr
    THEN bs_error_abort(<<fun_str(fun_name), "v should be a Numpy array">>)
    ELSE IF ndim(v) # 1
    THEN bs_error_abort(<<fun_str(fun_name), "v should have one dimension, not", ndim(v)>>)
    ELSE Ret(PyInt(size(v)))

test_matrix(x, fun_name) ==
    IF ~x.isarr
    THEN bs_error_abort(<<fun_str(fun_name), "Xx should be a Numpy array">>)
    ELSE IF ndim(x) # 2
    THEN bs_error_abort(<<fun_str(fun_name), "x should have two dimensions, not", ndim(x)>>)
    ELSE Ret(PyTuple(x.shape))

test_vector_or_matrix_upto3(x, fun_name) ==
    IF ~x.isarr
    THEN bs_error_abort(<<fun_str(fun_name), "X should be a Numpy array">>)
    ELSE IF ndim(x) # 1 /\ ndim(x) # 2 /\ ndim(x) # 3
    THEN bs_error_abort(<<fun_str(fun_name), "x should have at most two dimensions, not", ndim(x)>>)
    ELSE Ret(PyInt(ndim(x)))

test_vector_or_matrix(x, fun_name) ==
    IF ~x.isarr
    THEN bs_error_abort(<<fun_str(fun_name), "X should be a Numpy array">>)
    ELSE IF ndim(x) # 1 /\ ndim(x) # 2
    THEN bs_error_abort(<<fun_str(fun_name), "x should have at most two dimensions, not", ndim(x)>>)
    ELSE Ret(PyInt(ndim(x)))

test_square_size(A, fun_name) ==
    IF ~A.isarr
    THEN bs_error_abort(<<fun_str(fun_name), "A should be a Numpy array">>)
    ELSE IF ndim(A) = 2
    THEN IF A.shape[2] # A.shape[1]
         THEN bs_error_abort(<<fun_str(fun_name), "The matrix A should be square, not", A.shape>>)
         ELSE Ret(PyInt(size(A)))
    ELSE bs_error_abort(<<fun_name, "A should have  two dimensions, not", ndim(A)>>)

test_square(A, fun_name) ==
    IF ~A.isarr
    THEN bs_error_abort(<<fun_str(fun_name), "A should be a Numpy array">>)
    ELSE IF ndim(A) = 2
    THEN IF A.shape[2] # A.shape[1]
         THEN bs_error_abort(<<fun_str(fun_name), "The matrix A should be square, not", A.shape>>)
         ELSE Ret(PyInt(A.shape[1]))
    ELSE bs_error_abort(<<fun_name, "A should have  two dimensions, not", ndim(A)>>)

test_tensor(x, n_dims, fun_name) ==
    IF ~x.isarr
    THEN bs_error_abort(<<fun_str(fun_name), "x should be a Numpy array">>)
    ELSE IF ndim(x) # n_dims
    THEN bs_error_abort(<<fun_str(fun_name), "x should have n_dims dimensions, not", ndim(x)>>)
    ELSE Ret(PyTuple(x.shape))

ShapeArgs(x, n_dims, fun_name) == [x |-> x, n_dims |-> n_dims, fun_name |-> fun_name]

CallTestVector ==
    /\ call = Idle
    /\ UNCHANGED timer
    /\ \E x \in Objects, fn \in FunNames :
        call' = <<"test_vector", ShapeArgs(x, 1, fn), test_vector(x, fn)>>

CallTestMatrix ==
    /\ call = Idle
    /\ UNCHANGED timer
    /\ \E x \in Objects, fn \in FunNames :
        call' = <<"test_matrix", ShapeArgs(x, 2, fn), test_matrix(x, fn)>>

CallTestVectorOrMatrix ==
    /\ call = Idle
    /\ UNCHANGED timer
    /\ \E x \in Objects, fn \in FunNames :
        call' = <<"test_vector_or_matrix", ShapeArgs(x, 2, fn),
                  test_vector_or_matrix(x, fn)>>

CallTestSquare ==
    /\ call = Idle
    /\ UNCHANGED timer
    /\ \E x \in Objects, fn \in FunNames :
        call' = <<"test_square", ShapeArgs(x, 2, fn), test_square(x, fn)>>

CallTestTensor ==
    /\ call = Idle
    /\ UNCHANGED timer
    /\ \E x \in Objects, n_dims \in 0..MaxRank, fn \in FunNames :
        call' = <<"test_tensor", ShapeArgs(x, n_dims, fn), test_tensor(x, n_dims, fn)>>

\* a call that returned or raised hands control back to its caller, which may
\* call again; after an abort the process is gone, and a hanging call never ends
Return ==
    /\ Status \in {"return", "raise"}
    /\ call' = Idle
    /\ UNCHANGED timer

(***************************************************************************)
(* The one Timer object of the process (Timer.py) and its history.  A      *)
(* number is a pair <<numerator, denominator>>.                            *)
(*   self       the attributes elapsed and _start of the object            *)
(*   clock      the last reading self._func() returned                     *)
(*   monotone   no reading was smaller than the reading before it          *)
(*   begun      the reading of the last start that succeeded               *)
(*   completed  the intervals <<start reading, stop reading>> completed    *)
(*              since the last reset                                       *)
(*   last       the last of start and stop that succeeded                  *)
(*   resets     the number of resets, calls the number of calls            *)
(***************************************************************************)
__init__ == [elapsed |-> <<0, 1>>, _start |-> PyNone]

Init ==
    /\ call = Idle
    /\ timer = [self |-> __init__, clock |-> <<0, 1>>, monotone |-> TRUE,
                begun |-> PyNone, completed |-> <<>>, last |-> "none",
                resets |-> 0, calls |-> 0]

NextShape ==
    \/ CallTestVector
    \/ CallTestMatrix
    \/ CallTestVectorOrMatrix
    \/ CallTestSquare
    \/ CallTestTensor
    \/ Return

SpecShape == Init /\ [][NextShape]_vars

ShapeOps == {"test_vector", "test_matrix", "test_vector_or_matrix",
             "test_square", "test_tensor"}

\* the ranks a validator's contract accepts
WantedRanks ==
    CASE Op = "test_vector" -> {1}
      [] Op = "test_matrix" -> {2}
      [] Op = "test_vector_or_matrix" -> {1, 2}
      [] Op = "test_square" -> {2}
      [] Op = "test_tensor" -> {Args.n_dims}

ContractViolated ==
    \/ ~Args.x.isarr
    \/ ndim(Args.x) \notin WantedRanks
    \/ Op = "test_square" /\ Args.x.shape[1] # Args.x.shape[2]

(* C1: every shape validator aborts exactly when its argument is not a numpy
   array of the rank its contract asks for (1 for test_vector, 2 for
   test_matrix, 1 or 2 for test_vector_or_matrix, n_dims for test_tensor, 2
   with equal row and column counts for test_square), and returns otherwise;
   in particular test_vector_or_matrix aborts on every 3-D array. *)
C1_ValidatorsAbortIffViolated ==
    Op \in ShapeOps =>
        /\ Aborted(Out) <=> ContractViolated
        /\ Returned(Out) <=> ~ContractViolated

C1_Witness ==
    /\ Op = "test_vector_or_matrix"
    /\ Args.x.isarr
    /\ ndim(Args.x) = 3
    /\ Aborted(Out)

(* C2 as amended: on success test_vector returns the element count,
   test_matrix and test_tensor the shape tuple, test_square the common
   row/column count, and test_vector_or_matrix the number of dimensions
   (1 or 2) of its argument, not its size or shape. *)
C2_ReturnsSizeShapeOrRank ==
    (Op \in ShapeOps /\ Returned(Out)) =>
        CASE Op = "test_vector" -> Value = PyInt(size(Args.x))
          [] Op = "test_matrix" -> Value = PyTuple(Args.x.shape)
          [] Op = "test_tensor" -> Value = PyTuple(Args.x.shape)
          [] Op = "test_square" ->
                /\ Value = PyInt(Args.x.shape[1])
                /\ Value = PyInt(Args.x.shape[2])
          [] Op = "test_vector_or_matrix" -> Value = PyInt(ndim(Args.x))

C2_Witness ==
    /\ Op = "test_vector_or_matrix"
    /\ Returned(Out)
    /\ Args.x.shape = <<2, 2>>
    /\ Value = PyInt(2)

(* C2 as stated: on success every validator returns the validated array's
   size or shape; test_vector_or_matrix returns the element count of the
   vector or the shape tuple of the matrix it validated. *)
C2_Original ==
    (Op = "test_vector_or_matrix" /\ Returned(Out)) =>
        IF ndim(Args.x) = 1
        THEN Value = PyInt(size(Args.x))
        ELSE Value = PyTuple(Args.x.shape)


(***************************************************************************)
(* Numbers.  A float is modelled by an exact rational <<n, d>> with d > 0  *)
(* in lowest terms; <<1, 0>>, <<-1, 0>> and <<0, 0>> stand for inf, -inf   *)
(* and nan, which numpy's division by zero yields.                         *)
(***************************************************************************)
RECURSIVE GCD(_, _)
GCD(a, b) ==
    IF b = 0 THEN a ELSE CHOOSE g \in {GCD(y, x % y) : x \in {a}, y \in {b}} : TRUE

Abs(n) == IF n < 0 THEN -n ELSE n

\* the rational n/d in lowest terms; n/0 is inf, -inf or nan
R(n, d) ==
    LET g == GCD(Abs(n), Abs(d))
        sg == IF d < 0 THEN -1 ELSE 1
    IN IF d = 0 THEN <<(IF n > 0 THEN 1 ELSE IF n < 0 THEN -1 ELSE 0), 0>>
       ELSE <<sg * (n \div g), sg * (d \div g)>>

Zero == <<0, 1>>

One == <<1, 1>>

Half == <<1, 2>>

RAdd(a, b) ==
    IF a[2] # 0 /\ b[2] # 0 THEN R(a[1] * b[2] + b[1] * a[2], a[2] * b[2])
    ELSE IF a[2] = 0 /\ b[2] = 0 THEN (IF a = b THEN a ELSE <<0, 0>>)
    ELSE IF a[2] = 0 THEN a ELSE b

RNeg(a) == <<-a[1], a[2]>>

RSub(a, b) == RAdd(a, RNeg(b))

RMul(a, b) == R(a[1] * b[1], a[2] * b[2])

\* a / b: a times the reciprocal of b, which is inf for b = 0
RDiv(a, b) == RMul(a, IF b[1] < 0 THEN <<-b[2], -b[1]>> ELSE <<b[2], b[1]>>)

\* a < b; every comparison with nan is False
RLt(a, b) ==
    IF a[2] # 0 /\ b[2] # 0 THEN a[1] * b[2] < b[1] * a[2]
    ELSE IF a = <<0, 0>> \/ b = <<0, 0>> THEN FALSE
    ELSE (a = <<-1, 0>> /\ b # <<-1, 0>>) \/ (b = <<1, 0>> /\ a # <<1, 0>>)

RLe(a, b) == RLt(a, b) \/ (a = b /\ a # <<0, 0>>)

RMax(a, b) == IF RLt(a, b) THEN b ELSE a

RMin(a, b) == IF RLt(b, a) THEN b ELSE a

\* np.min / np.max of a non-empty flat sequence
RECURSIVE npmin(_)
npmin(d) == IF Len(d) = 1 THEN d[1] ELSE RMin(d[1], npmin(Tail(d)))

RECURSIVE npmax(_)
npmax(d) == IF Len(d) = 1 THEN d[1] ELSE RMax(d[1], npmax(Tail(d)))

(***************************************************************************)
(* numpy arrays of floats: <<"ndarray", shape, data>>, data the elements   *)
(* in row-major order.  np.min of an empty array raises ValueError.        *)
(***************************************************************************)
MaxLen == 2       \* arrays passed to the smooth functions have 0..MaxLen elements

NdArray(shape, data) == <<"ndarray", shape, data>>

shapeof(arr) == arr[2]

dataof(arr) == arr[3]

\* the array of f(x) for each element x of arr: an element-wise operation
Elementwise(f(_), arr) ==
    NdArray(shapeof(arr), [i \in 1..Len(dataof(arr)) |-> f(dataof(arr)[i])])

SmoothShapes ==
    {<<k>> : k \in 0..MaxLen}
        \cup {sh \in {<<r, c>> : r \in 1..MaxLen, c \in 1..MaxLen} : sh[1] * sh[2] <= MaxLen}

ArraysOver(E) ==
    UNION {{NdArray(sh, d) : d \in Tuples(E, Prod(sh))} : sh \in SmoothShapes}

\* the elements of the input arrays
Elems == {R(-1, 1), Zero, One, R(2, 1)}

InArrays == ArraysOver(Elems)

(***************************************************************************)
(* Results of the smooth functions are exact reals of two forms:           *)
(*   <<"lin", c, x, p>>   c * ln(x) + p     (c, x, p rational, x > 0)      *)
(*   <<"exp", x, q>>      q * exp(x)        (x, q rational)                *)
(* "lin" is kept in normal form: ln(1) = 0, and 0 * ln(x) = 0.             *)
(***************************************************************************)
Lin(c, x, p) ==
    IF c = Zero \/ x = One THEN <<"lin", Zero, One, p>> ELSE <<"lin", c, x, p>>

Num(q) == Lin(Zero, One, q)

\* math.log(x) and np.log(x) of one element, x > 0
Ln(x) == Lin(One, x, Zero)

\* math.exp(x) and np.exp(x) of one element, times q
Exp(x, q) == <<"exp", x, q>>

(***************************************************************************)
(* nplog: C^2 extension of ln(a) below eps.                                *)
(***************************************************************************)
\* one element of each array nplog builds on its second path
nplog_logeps(a, eps) ==
    LET logarreps == Ln(RMax(a, eps))
        darr == RSub(One, RDiv(a, eps))
        logarr_smaller == Lin(One, eps, RNeg(RMul(darr, RAdd(One, RDiv(darr, R(2, 1))))))
    IN IF RLt(eps, a) THEN logarreps ELSE logarr_smaller

\* nplog_dlogeps without the extension below eps
nplog_dlogeps_clipped(a, eps) == Num(RDiv(One, RMax(a, eps)))

nplog_dlogeps(a, eps) ==
    LET arreps == RMax(a, eps)
        darr == RSub(One, RDiv(a, eps))
        der_logarreps == Num(RDiv(One, arreps))
        der_logarr_smaller == Num(RDiv(RAdd(One, darr), eps))
    IN IF RLt(eps, a) THEN der_logarreps ELSE der_logarr_smaller

nplog_d2logeps(a, eps) ==
    LET arreps == RMax(a, eps)
        der2_logarreps == Num(RDiv(RNeg(One), RMul(arreps, arreps)))
        der2_logarr_smaller == Num(RDiv(RNeg(One), RMul(eps, eps)))
    IN IF RLt(eps, a) THEN der2_logarreps ELSE der2_logarr_smaller

nplog(arr, eps, deriv, verbose) ==
    IF deriv \notin {0, 1, 2}
    THEN bs_error_abort(<<"deriv can only be 0, 1, or 2; not", deriv>>)
    ELSE IF Len(dataof(arr)) = 0 THEN Raise("ValueError")
    ELSE IF RLt(eps, npmin(dataof(arr)))
    THEN LET logarr == Elementwise(LAMBDA a : Ln(a), arr)
             inv == Elementwise(LAMBDA a : Num(RDiv(One, a)), arr)
             minv2 == Elementwise(LAMBDA a : Num(RDiv(RNeg(One), RMul(a, a))), arr)
         IN CASE deriv = 0 -> Ret(logarr)
              [] deriv = 1 -> Ret(PyTuple(<<logarr, inv>>))
              [] deriv = 2 -> Ret(PyTuple(<<logarr, inv, minv2>>))
    ELSE LET logeps == Elementwise(LAMBDA a : nplog_logeps(a, eps), arr)
             dlogeps == Elementwise(LAMBDA a : nplog_dlogeps(a, eps), arr)
             d2logeps == Elementwise(LAMBDA a : nplog_d2logeps(a, eps), arr)
         IN IF deriv = 0 THEN Ret(logeps)
            ELSE IF deriv = 1 THEN Ret(PyTuple(<<logeps, dlogeps>>))
            ELSE Ret(PyTuple(<<logeps, dlogeps, d2logeps>>))


(***************************************************************************)
(* npexp: C^2 extension of exp(a) above bigx and below lowx.               *)
(***************************************************************************)
\* one element of exp(max(min(arr, bigx), lowx))
npexp_exparr(a, bigx, lowx) == Exp(RMax(RMin(a, bigx), lowx), One)

npexp_expval(a, bigx, lowx) ==
    LET darrb == RSub(a, bigx)
        darrl == RSub(lowx, a)
        exparr_larger ==
            Exp(bigx, RAdd(One, RMul(darrb, RAdd(One, RMul(Half, darrb)))))
        exparr_smaller ==
            Exp(lowx, RSub(One, RMul(darrl, RSub(One, RMul(Half, darrl)))))
        expval1 == IF RLt(bigx, a) THEN exparr_larger ELSE npexp_exparr(a, bigx, lowx)
    IN IF RLt(a, lowx) THEN exparr_smaller ELSE expval1

npexp_dexpval(a, bigx, lowx) ==
    LET darrb == RSub(a, bigx)
        darrl == RSub(lowx, a)
        dexparr_larger == Exp(bigx, RAdd(One, darrb))
        dexparr_smaller == Exp(lowx, RSub(One, darrl))
        dexpval1 == IF RLt(bigx, a) THEN dexparr_larger ELSE npexp_exparr(a, bigx, lowx)
    IN IF RLt(a, lowx) THEN dexparr_smaller ELSE dexpval1

npexp(arr, bigx, lowx, deriv, verbose) ==
    IF deriv \notin {0, 1, 2}
    THEN bs_error_abort(<<"deriv can only be 0, 1, or 2; not", deriv>>)
    ELSE IF Len(dataof(arr)) = 0 THEN Raise("ValueError")
    ELSE IF RLe(npmax(dataof(arr)), bigx) /\ RLe(lowx, npmin(dataof(arr)))
    THEN LET exparr == Elementwise(LAMBDA a : Exp(a, One), arr)
         IN CASE deriv = 0 -> Ret(exparr)
              [] deriv = 1 -> Ret(PyTuple(<<exparr, exparr>>))
              [] deriv = 2 -> Ret(PyTuple(<<exparr, exparr, exparr>>))
    ELSE LET exparr == Elementwise(LAMBDA a : npexp_exparr(a, bigx, lowx), arr)
             expval == Elementwise(LAMBDA a : npexp_expval(a, bigx, lowx), arr)
             dexpval == Elementwise(LAMBDA a : npexp_dexpval(a, bigx, lowx), arr)
             d2expval == exparr
         IN IF deriv = 0 THEN Ret(expval)
            ELSE IF deriv = 1 THEN Ret(PyTuple(<<expval, dexpval>>))
            ELSE Ret(PyTuple(<<expval, dexpval, d2expval>>))

(***************************************************************************)
(* npxlogx: extension of a * ln(a) below eps.                              *)
(***************************************************************************)
npxlogx_xlogval(a, eps) ==
    LET xlogarreps == Lin(a, RMax(a, eps), Zero)
        xlogarr_smaller == Lin(a, eps, RMul(a, RSub(RDiv(a, eps), One)))
    IN IF RLt(eps, a) THEN xlogarreps ELSE xlogarr_smaller

npxlogx_dxlogval(a, eps) ==
    LET dxlogarreps == Lin(One, RMax(a, eps), One)
        dxlogarr_smaller == Lin(One, eps, RDiv(a, eps))
    IN IF RLt(eps, a) THEN dxlogarreps ELSE dxlogarr_smaller

npxlogx_d2xlogval(a, eps) == Num(RDiv(One, RMax(a, eps)))

npxlogx(arr, eps, deriv, verbose) ==
    IF deriv \notin {0, 1, 2}
    THEN bs_error_abort(<<"deriv must be 0, 1, or 2; not", deriv>>)
    ELSE IF Len(dataof(arr)) = 0 THEN Raise("ValueError")
    ELSE IF RLt(eps, npmin(dataof(arr)))
    THEN Ret(Elementwise(LAMBDA a : Lin(a, a, Zero), arr))
    ELSE LET xlogval == Elementwise(LAMBDA a : npxlogx_xlogval(a, eps), arr)
             dxlogval == Elementwise(LAMBDA a : npxlogx_dxlogval(a, eps), arr)
             d2xlogval == Elementwise(LAMBDA a : npxlogx_d2xlogval(a, eps), arr)
         IN IF deriv = 0 THEN Ret(xlogval)
            ELSE IF deriv = 1 THEN Ret(PyTuple(<<xlogval, dxlogval>>))
            ELSE Ret(PyTuple(<<xlogval, dxlogval, d2xlogval>>))


(***************************************************************************)
(* nppow: a ** b element by element.  Its results are kept as the          *)
(* expressions the code evaluates, over the numbers of a and b:            *)
(*   <<"num", q>>, <<"pow", s, t>>, <<"log", s>>, <<"nplog", s>>,          *)
(*   <<"mul", s, t>>, <<"div", s, t>>, <<"add", s, t>>,                    *)
(* where "nplog" is nplog with its default eps.                            *)
(***************************************************************************)
PyFloat(q) == <<"float", q>>

\* isinstance(b, float) and isinstance(b, (int, float))
IsFloat(b) == b[1] = "float"

IsNumber(b) == b[1] \in {"int", "float"}

\* the number a Python int or float stands for
NumberOf(b) == IF b[1] = "int" THEN R(b[2], 1) ELSE b[2]

TNum(q) == <<"num", q>>

\* an operation of one or of two operands, left unevaluated
Term1(op, s) == <<op, s>>

Term2(op, s, t) == <<op, s, t>>

\* the array of g(a[i], b[i]), with the shape of a
Elementwise2(g(_, _), a, bdata) ==
    NdArray(shapeof(a), [i \in 1..Len(dataof(a)) |-> g(dataof(a)[i], bdata[i])])

\* element by element, for base x, exponent y, log_a the logarithm of x and
\* d1a the derivative in a: the six results of nppow at deriv = 2
nppow_terms(x, y, log_a, d1a) ==
    LET a_pow_b == Term2("pow", TNum(x), TNum(y))
        b1 == TNum(RSub(y, One))
        a_pow_b1 == Term2("div", a_pow_b, TNum(x))
    IN <<a_pow_b,
         d1a,
         Term2("mul", a_pow_b, log_a),
         Term2("div", Term2("mul", Term2("mul", TNum(y), b1), a_pow_b1), TNum(x)),
         Term2("mul", a_pow_b1, Term2("add", TNum(One), Term2("mul", TNum(y), log_a))),
         Term2("mul", Term2("mul", a_pow_b, log_a), log_a)>>

\* the branch of nppow for b an int or a float: np.log(a), b * a_pow_b / a
nppow_scalar(a, b, deriv) ==
    LET bs == [i \in 1..Len(dataof(a)) |-> NumberOf(b)]
        res(k) == Elementwise2(
            LAMBDA x, y : nppow_terms(x, y, Term1("log", TNum(x)),
                Term2("div", Term2("mul", TNum(y), Term2("pow", TNum(x), TNum(y))),
                      TNum(x)))[k], a, bs)
    IN IF deriv = 0 THEN Ret(res(1))
       ELSE IF deriv = 1 THEN Ret(PyTuple(<<res(1), res(2), res(3)>>))
       ELSE IF deriv = 2
       THEN Ret(PyTuple(<<res(1), res(2), res(3), res(4), res(5), res(6)>>))
       ELSE Ret(PyNone)

\* the branch of nppow for b an array: nplog(avec), a_pow_b * bvec / avec
nppow_array(a, b, deriv) ==
    LET res(k) == Elementwise2(
            LAMBDA x, y : nppow_terms(x, y, Term1("nplog", TNum(x)),
                Term2("div", Term2("mul", Term2("pow", TNum(x), TNum(y)), TNum(y)),
                      TNum(x)))[k], a, dataof(b))
    IN IF shapeof(a) # shapeof(b)
       THEN bs_error_abort(<<"b is not a number or an array of the same shape as a!", 0>>)
       ELSE IF deriv = 0 THEN Ret(res(1))
       ELSE IF Len(dataof(a)) = 0 THEN Raise("ValueError")
       ELSE IF deriv = 1 THEN Ret(PyTuple(<<res(1), res(2), res(3)>>))
       ELSE IF deriv = 2
       THEN Ret(PyTuple(<<res(1), res(2), res(3), res(4), res(5), res(6)>>))
       ELSE Ret(PyNone)

nppow(a, b, deriv) ==
    IF IsFloat(b) /\ Len(dataof(a)) = 0 THEN Raise("ValueError")
    ELSE IF IsFloat(b) /\ RLt(npmin(dataof(a)), Zero)
    THEN bs_error_abort(<<"All elements of a must be positive!", 0>>)
    ELSE IF IsNumber(b) THEN nppow_scalar(a, b, deriv)
    ELSE nppow_array(a, b, deriv)


(***************************************************************************)
(* Calls of the smooth-extension functions.                                *)
(***************************************************************************)
MaxDeriv == 3     \* deriv is drawn from 0..MaxDeriv; 0, 1, 2 are the valid levels

Derivs == 0..MaxDeriv

\* eps > 0: the lower bound below which ln is extended
Epss == {One, R(2, 1)}

BigXs == {One}

LowXs == {R(-1, 1), Zero}

\* exponents of nppow: Python ints, Python floats, arrays
Exponents ==
    {PyInt(2), PyInt(-1), PyFloat(Half), PyFloat(R(2, 1))} \cup ArraysOver({R(2, 1)})

CallNplog ==
    /\ call = Idle
    /\ UNCHANGED timer
    /\ \E arr \in InArrays, eps \in Epss, deriv \in Derivs, verbose \in BOOLEAN :
        call' = <<"nplog",
                  [arr |-> arr, eps |-> eps, deriv |-> deriv, verbose |-> verbose],
                  nplog(arr, eps, deriv, verbose)>>

CallNpexp ==
    /\ call = Idle
    /\ UNCHANGED timer
    /\ \E arr \in InArrays, bigx \in BigXs, lowx \in LowXs, deriv \in Derivs,
       verbose \in BOOLEAN :
        call' = <<"npexp",
                  [arr |-> arr, bigx |-> bigx, lowx |-> lowx, deriv |-> deriv,
                   verbose |-> verbose],
                  npexp(arr, bigx, lowx, deriv, verbose)>>

CallNppow ==
    /\ call = Idle
    /\ UNCHANGED timer
    /\ \E a \in InArrays, b \in Exponents, deriv \in Derivs :
        call' = <<"nppow", [a |-> a, b |-> b, deriv |-> deriv], nppow(a, b, deriv)>>

CallNpxlogx ==
    /\ call = Idle
    /\ UNCHANGED timer
    /\ \E arr \in InArrays, eps \in Epss, deriv \in Derivs, verbose \in BOOLEAN :
        call' = <<"npxlogx",
                  [arr |-> arr, eps |-> eps, deriv |-> deriv, verbose |-> verbose],
                  npxlogx(arr, eps, deriv, verbose)>>

NextSmooth ==
    \/ CallNplog
    \/ CallNpexp
    \/ CallNppow
    \/ CallNpxlogx
    \/ Return

SpecSmooth == Init /\ [][NextSmooth]_vars

SmoothOps == {"nplog", "npexp", "nppow", "npxlogx"}

\* the arrays a call returned, as a sequence (a lone array is a sequence of one)
OutArrays ==
    IF Value[1] = "tuple" THEN Value[2]
    ELSE IF Value[1] = "ndarray" THEN <<Value>>
    ELSE <<>>

(* C3 as stated: each of nplog, npexp, nppow and npxlogx aborts when deriv *)
(* is outside {0, 1, 2}, whatever the input array, and returns nothing.    *)
C3_Original ==
    (Op \in SmoothOps /\ Args.deriv \notin {0, 1, 2}) => Aborted(Out)

\* the number of arrays the contract promises for each deriv level
ExpectedCount(op, deriv) ==
    IF op = "nppow"
    THEN CASE deriv = 0 -> 1 [] deriv = 1 -> 3 [] deriv = 2 -> 6
    ELSE deriv + 1

(* C4 as stated: for deriv in {0, 1, 2} the number of arrays a smooth      *)
(* function returns depends only on deriv: 1, 2, 3 arrays for nplog, npexp *)
(* and npxlogx, and 1, 3, 6 for nppow, inside and outside the safe domain. *)
C4_Original ==
    (Op \in SmoothOps /\ Args.deriv \in {0, 1, 2} /\ Returned(Out)) =>
        Len(OutArrays) = ExpectedCount(Op, Args.deriv)

(* C5 as stated: nppow with a scalar exponent (int or float) aborts when   *)
(* some element of a is zero or negative.                                  *)
C5_Original ==
    (/\ Op = "nppow"
     /\ IsNumber(Args.b)
     /\ \E i \in 1..Len(dataof(Args.a)) : RLe(dataof(Args.a)[i], Zero))
        => Aborted(Out)


\* the value and derivatives of the extended logarithm at one element a,
\* written from the formulas: level k is 0 (value), 1 or 2 (derivatives)
ExtendedLog(a, eps, k) ==
    LET d == RSub(One, RDiv(a, eps))
    IN IF RLt(eps, a)
       THEN CASE k = 0 -> Ln(a)
              [] k = 1 -> Num(RDiv(One, a))
              [] k = 2 -> Num(RNeg(RDiv(One, RMul(a, a))))
       ELSE CASE k = 0 -> Lin(One, eps, RNeg(RMul(d, RAdd(One, RMul(d, Half)))))
              [] k = 1 -> Num(RDiv(RAdd(One, d), eps))
              [] k = 2 -> Num(RNeg(RDiv(One, RMul(eps, eps))))

\* what nplog returns for the one-element array [a]
NplogOfSingle(a, k) ==
    LET out == nplog(NdArray(<<1>>, <<a>>), Args.eps, Args.deriv, Args.verbose)
    IN IF Args.deriv = 0 THEN dataof(out[2])[1] ELSE dataof(out[2][2][k + 1])[1]

(* C6: for eps > 0, a non-empty array and deriv in {0, 1, 2}, nplog        *)
(* returns deriv + 1 arrays of the shape of the input, and element i of    *)
(* array k is the extended logarithm's k-th derivative at input element i  *)
(* alone: ln(a), 1/a, -1/a^2 above eps, and ln(eps) - d(1 + d/2),          *)
(* (1 + d)/eps, -1/eps^2 with d = 1 - a/eps otherwise.  It is also what    *)
(* nplog returns for the one-element array [a], on whichever path, and at  *)
(* a = eps the value is ln(eps) and the first derivative 1/eps.            *)
C6_NplogElementwise ==
    (Op = "nplog" /\ Returned(Out)) =>
        /\ Len(OutArrays) = Args.deriv + 1
        /\ \A k \in 0..Args.deriv :
            /\ shapeof(OutArrays[k + 1]) = shapeof(Args.arr)
            /\ Len(dataof(OutArrays[k + 1])) = Len(dataof(Args.arr))
            /\ \A i \in 1..Len(dataof(Args.arr)) :
                LET a == dataof(Args.arr)[i]
                    y == dataof(OutArrays[k + 1])[i]
                IN /\ y = ExtendedLog(a, Args.eps, k)
                   /\ y = NplogOfSingle(a, k)
                   /\ (a = Args.eps /\ k = 0) => y = Ln(Args.eps)
                   /\ (a = Args.eps /\ k = 1) => y = Num(RDiv(One, Args.eps))

\* a mixed array (one element at eps, one above) with both derivatives
C6_Witness ==
    /\ Op = "nplog"
    /\ Returned(Out)
    /\ Args.deriv = 2
    /\ Args.eps = One
    /\ dataof(Args.arr) = <<One, R(2, 1)>>
    /\ dataof(OutArrays[1]) = <<Num(Zero), Ln(R(2, 1))>>
    /\ dataof(OutArrays[2]) = <<Num(One), Num(Half)>>


\* w1*u + w2*v + w3*t for three results c*ln(eps) + p with the same eps
Combined(w1, u, w2, v, w3, t, eps) ==
    Lin(RAdd(RAdd(RMul(w1, u[2]), RMul(w2, v[2])), RMul(w3, t[2])), eps,
        RAdd(RAdd(RMul(w1, u[4]), RMul(w2, v[4])), RMul(w3, t[4])))

\* the value output of npxlogx for the one element a, which is at most eps
XlogxValue(a, eps) == dataof(npxlogx(NdArray(<<1>>, <<a>>), eps, 0, FALSE)[2])[1]

\* the derivative of level k (1 or 2) at a <= eps of the quadratic that the
\* value output is below eps: for a quadratic V, V'(a) is
\* (3V(a) - 4V(a-1) + V(a-2))/2 and V''(a) is V(a) - 2V(a-1) + V(a-2)
ValueDerivative(a, eps, k) ==
    LET V0 == XlogxValue(a, eps)
        V1 == XlogxValue(RSub(a, One), eps)
        V2 == XlogxValue(RSub(a, R(2, 1)), eps)
    IN IF k = 1 THEN Combined(R(3, 2), V0, R(-2, 1), V1, Half, V2, eps)
       ELSE Combined(One, V0, R(-2, 1), V1, One, V2, eps)

(* C27 as stated: for an element a <= eps the first- and second-derivative *)
(* outputs of npxlogx are the first and second derivatives with respect to *)
(* a of the quadratic formula of the value output, and at a = eps the      *)
(* value, the first and the second derivative are eps*ln(eps), 1 + ln(eps) *)
(* and 1/eps.                                                              *)
C27_Original ==
    (Op = "npxlogx" /\ Returned(Out) /\ Args.deriv \in {1, 2}
        /\ Len(OutArrays) = Args.deriv + 1) =>
        \A i \in 1..Len(dataof(Args.arr)) :
            LET a == dataof(Args.arr)[i]
                eps == Args.eps
            IN RLe(a, eps) =>
                /\ \A k \in 1..Args.deriv :
                    dataof(OutArrays[k + 1])[i] = ValueDerivative(a, eps, k)
                /\ a = eps =>
                    /\ dataof(OutArrays[1])[i] = Lin(eps, eps, Zero)
                    /\ dataof(OutArrays[2])[i] = Lin(One, eps, One)
                    /\ Args.deriv = 2 => dataof(OutArrays[3])[i] = Num(RDiv(One, eps))


(***************************************************************************)
(* Quadrature.  gauher and gauleg find each root by Newton's method in     *)
(* floating point.  The arithmetic of one Newton step (the three-term      *)
(* recurrence and the division) is not evaluated: floats are the points of *)
(* Grid, in units of EPS, and the initial guesses, the Newton step and the *)
(* derivative pp are arbitrary maps on Grid, given with the call.  What is *)
(* modelled exactly is the control flow around them and the stores into x  *)
(* and w.                                                                  *)
(***************************************************************************)
Grid == {0, 1, 2}

EPS == 1          \* EPS = 1.0e-14 in gauher (3e-11 in gauleg): the unit of Grid

MAXIT == 10

MaxN == 3         \* gauher and gauleg are called with n in 0..MaxN

\* the floating-point arithmetic of a call: the first initial guess, the next
\* guess from the last root, the Newton step z1 |-> z1 - p1/pp, and pp (# 0)
Arith ==
    [guess : Grid, init : [Grid -> Grid], step : [Grid -> Grid],
     pp : {[z \in Grid |-> 1], [z \in Grid |-> z + 1]}]

\* the call's fourth component: what the call did besides producing its outcome
Log == call[4]

\* sys.exit(msg): prints the message and ends the process
sys_exit(msg) == <<"abort", <<msg, 0>> >>

\* gauher's loop `for its in range(MAXIT)`, from iteration its with estimate z:
\* the last z, pp and its, and whether the loop ended by its break
RECURSIVE gauher_newton(_, _, _)
gauher_newton(z, its, fp) ==
    LET pp == fp.pp[z]
        z1 == z
        znew == fp.step[z1]
    IN IF Abs(znew - z1) <= EPS THEN <<znew, pp, its, TRUE>>
       ELSE IF its + 1 < MAXIT THEN gauher_newton(znew, its + 1, fp)
       ELSE <<znew, pp, its, FALSE>>

\* x[i] = z; x[n - 1 - i] = -z, keeping only one side
gauher_store_x_onesided(x, i, n, z) == [x EXCEPT ![i + 1] = R(z, 1)]

\* x[i] = z; x[n - 1 - i] = -z  (x is indexed from 1 here)
gauher_store_x(x, i, n, z) == [x EXCEPT ![i + 1] = R(z, 1), ![n - i] = R(-z, 1)]

\* w[i] = 2.0 / (pp * pp); w[n - 1 - i] = w[i]
gauher_store_w(w, i, n, pp) ==
    [w EXCEPT ![i + 1] = R(2, pp * pp), ![n - i] = R(2, pp * pp)]

Reverse(x) == [k \in 1..Len(x) |-> x[Len(x) + 1 - k]]

\* np.zeros(n), as the sequence of n copies of the zero `zero`
RECURSIVE np_zeros(_, _)
np_zeros(n, zero) == IF n = 0 THEN <<>> ELSE Append(np_zeros(n - 1, zero), zero)

\* gauher's loop `for i in range(m)` from index i on, z the last root found;
\* the pair of the call's outcome and the roots' log <<z, its, converged>>
RECURSIVE gauher_roots(_, _, _, _, _, _, _)
gauher_roots(i, z, x, w, n, fp, log) ==
    IF i = (n + 1) \div 2
    THEN <<Ret(PyTuple(<<NdArray(<<n>>, Reverse(x)), NdArray(<<n>>, w)>>)), log>>
    ELSE LET z0 == IF i = 0 THEN fp.guess ELSE fp.init[z]
             r == gauher_newton(z0, 0, fp)
         IN IF r[3] >= MAXIT
            THEN <<sys_exit("too many iterations in gauher"), log>>
            ELSE gauher_roots(i + 1, r[1], gauher_store_x(x, i, n, r[1]),
                              gauher_store_w(w, i, n, r[2]), n, fp,
                              Append(log, <<r[1], r[3], r[4]>>))

gauher_run(n, fp) ==
    gauher_roots(0, 0, np_zeros(n, Zero), np_zeros(n, Zero), n, fp, <<>>)

gauher(n, fp) == gauher_run(n, fp)[1]


\* gauleg's loop `while abs(z - z1) > EPS`, z1 = inf at first: one iteration from
\* estimate z after `count` iterations.  The step is a map on the finite Grid, so
\* a loop that has not ended after Cardinality(Grid) iterations never ends.
RECURSIVE gauleg_newton(_, _, _)
gauleg_newton(z, count, fp) ==
    LET pp == fp.pp[z]
        z1 == z
        znew == fp.step[z1]
    IN IF Abs(znew - z1) > EPS
       THEN IF count + 1 >= Cardinality(Grid) THEN <<znew, pp, count + 1, FALSE>>
            ELSE gauleg_newton(znew, count + 1, fp)
       ELSE <<znew, pp, count + 1, TRUE>>

\* x[i - 1] = -z; x[n - i] = z  (x is indexed from 1 here)
gauleg_store_x(x, i, n, z) == [x EXCEPT ![i] = R(-z, 1), ![n - i + 1] = R(z, 1)]

\* w[i - 1] = 2.0 / ((1.0 - z * z) * pp * pp); w[n - i] = w[i - 1]
gauleg_store_w(w, i, n, z, pp) ==
    LET wi == Term2("2/((1-z*z)*pp*pp)", TNum(R(z, 1)), TNum(R(pp, 1)))
    IN [w EXCEPT ![i] = wi, ![n - i + 1] = wi]

\* gauleg's loop `for i in range(1, m + 1)` from index i on, z0 the initial guess
\* cos(pi * (i - 0.25) / (n + 0.5)) for index i
RECURSIVE gauleg_roots(_, _, _, _, _, _, _)
gauleg_roots(i, z0, x, w, n, fp, log) ==
    IF i = (n + 1) \div 2 + 1
    THEN <<Ret(PyTuple(<<NdArray(<<n>>, x), NdArray(<<n>>, w)>>)), log>>
    ELSE LET r == gauleg_newton(z0, 0, fp)
         IN IF ~r[4] THEN <<Hang, log>>
            ELSE gauleg_roots(i + 1, fp.init[z0], gauleg_store_x(x, i, n, r[1]),
                              gauleg_store_w(w, i, n, r[1], r[2]), n, fp,
                              Append(log, <<r[1], r[3], r[4]>>))

gauleg_run(n, fp) ==
    gauleg_roots(1, fp.guess, np_zeros(n, Zero), np_zeros(n, TNum(Zero)), n, fp, <<>>)

gauleg(n, fp) == gauleg_run(n, fp)[1]

CallGauher ==
    /\ call = Idle
    /\ UNCHANGED timer
    /\ \E n \in 0..MaxN, fp \in Arith :
        call' = <<"gauher", [n |-> n, fp |-> fp], gauher(n, fp), gauher_run(n, fp)[2]>>

CallGauleg ==
    /\ call = Idle
    /\ UNCHANGED timer
    /\ \E n \in 0..MaxN, fp \in Arith :
        call' = <<"gauleg", [n |-> n, fp |-> fp], gauleg(n, fp), gauleg_run(n, fp)[2]>>


(***************************************************************************)
(* gaussian_expectation.  Its nodes are multiples of sqrt(2) and its       *)
(* integrands are powers, so f(nodes[i]) is a number a + b * sqrt(2) with  *)
(* a, b rational, kept exactly as <<a, b>>; the weights w / sqrt(pi) and   *)
(* the integral are kept in units of 1 / sqrt(pi).                         *)
(***************************************************************************)
S2Add(u, v) == <<RAdd(u[1], v[1]), RAdd(u[2], v[2])>>

S2Mul(u, v) ==
    <<RAdd(RMul(u[1], v[1]), RMul(R(2, 1), RMul(u[2], v[2]))),
      RAdd(RMul(u[1], v[2]), RMul(u[2], v[1]))>>

\* u ** k for an int k >= 0
RECURSIVE S2Pow(_, _)
S2Pow(u, k) == IF k = 0 THEN <<One, Zero>> ELSE S2Mul(u, S2Pow(u, k - 1))

\* a float in units of 1 / sqrt(pi)
OverSqrtPi(u) == <<"float/sqrt(pi)", u>>

DefaultN == 16    \* n: Optional[int] = 16

MaxNodes == 2     \* caller-supplied rules have 0..MaxNodes nodes

MaxPower == 1     \* integrands are x ** k, k in 0..MaxPower

\* integrands: <<"f", k>> is f(x) = x ** k, <<"fp", 0>> is fp(x, pars) = x ** pars[0]
Integrands == {<<"f", k>> : k \in 0..MaxPower} \cup {<<"fp", 0>>}

PyList(t) == <<"list", t>>

ParsArgs == {PyNone} \cup {PyList(<<k>>) : k \in 0..MaxPower}

\* f(x) or f(x, pars) at one node x
ApplyF(f, pars, x) == S2Pow(x, IF f[1] = "f" THEN f[2] ELSE pars[2][1])

\* calling f with one argument, or with two, fits its signature
Callable(f, pars) == (pars = PyNone) <=> (f[1] = "f")

\* integral_val = weights[0] * f(nodes[0]); then += weights[i] * f(nodes[i]) for
\* i in range(first, n_nodes)  (element-wise mode; nodes indexed from 1 here)
RECURSIVE accumulate(_, _, _, _, _, _, _)
accumulate(integral_val, i, n_nodes, nodes, weights, f, pars) ==
    IF i >= n_nodes THEN integral_val
    ELSE accumulate(
            S2Add(integral_val,
                  S2Mul(<<weights[i + 1], Zero>>, ApplyF(f, pars, nodes[i + 1]))),
            i + 1, n_nodes, nodes, weights, f, pars)

\* f(nodes) @ weights  (vectorized mode)
RECURSIVE matmul(_, _)
matmul(fvals, weights) ==
    IF Len(fvals) = 0 THEN <<Zero, Zero>>
    ELSE S2Add(S2Mul(fvals[1], <<weights[1], Zero>>),
               matmul(Tail(fvals), Tail(weights)))

\* the loop of the element-wise mode, started after index 0 and one index late
gaussian_expectation_loop_late(nodes, weights, n_nodes, f, pars) ==
    accumulate(S2Mul(<<weights[1], Zero>>, ApplyF(f, pars, nodes[1])),
               2, n_nodes, nodes, weights, f, pars)

\* the loop of the element-wise mode
gaussian_expectation_loop(nodes, weights, n_nodes, f, pars) ==
    accumulate(S2Mul(<<weights[1], Zero>>, ApplyF(f, pars, nodes[1])),
               1, n_nodes, nodes, weights, f, pars)

\* lines 927-944: the integral over the rule (nodes, weights), nodes given
\* before their scaling by sqrt(2) and weights before theirs by 1 / sqrt(pi)
gaussian_expectation_sum(x, w, n_nodes, f, vectorized, pars) ==
    LET nodes == [i \in 1..Len(x) |-> <<Zero, x[i]>>]
        weights == w
    IN IF vectorized
       THEN IF ~Callable(f, pars) THEN Raise("TypeError")
            ELSE Ret(OverSqrtPi(
                    matmul([i \in 1..Len(nodes) |-> ApplyF(f, pars, nodes[i])], weights)))
       ELSE IF Len(weights) = 0 THEN Raise("IndexError")
            ELSE IF ~Callable(f, pars) THEN Raise("TypeError")
            ELSE Ret(OverSqrtPi(gaussian_expectation_loop(nodes, weights, n_nodes, f, pars)))

gaussian_expectation(f, vectorized, pars, n, x, w, fp) ==
    IF x = PyNone
    THEN LET rule == gauher(n, fp)
         IN IF ~Returned(rule) THEN rule
            ELSE gaussian_expectation_sum(dataof(rule[2][2][1]), dataof(rule[2][2][2]),
                                          n, f, vectorized, pars)
    ELSE IF w = PyNone THEN bs_error_abort(<<"x is None but w is not", 0>>)
    ELSE IF Len(dataof(w)) # Len(dataof(x))
    THEN bs_error_abort(<<"x has {x.size} elements and w has {w.size}", 0>>)
    ELSE gaussian_expectation_sum(dataof(x), dataof(w), Len(dataof(x)),
                                  f, vectorized, pars)


\* nodes = x * sqrt(2.0) and weights = w / sqrt(pi) are new arrays (and the in-place
\* `nodes *= sqrt(2.0)` acts on gauher's arrays): the caller's x and w after the call
gaussian_expectation_leaves(x, w) == <<x, w>>

\* 1-d arrays of 0..MaxNodes elements of E
RuleArrays(E) ==
    UNION {{NdArray(<<k>>, d) : d \in Tuples(E, k)} : k \in 0..MaxNodes}

\* the arithmetic of the gauher call made when no nodes are supplied
ArithFew == {fp \in Arith : fp.init = fp.step /\ fp.pp = [z \in Grid |-> z + 1]}

ArithUnused == [guess |-> 0, init |-> [z \in Grid |-> z], step |-> [z \in Grid |-> z],
                pp |-> [z \in Grid |-> 1]]

\* n is left to its default, or given
NArgs == {<<FALSE, DefaultN>>} \cup {<<TRUE, n>> : n \in 0..1}

CallGaussianExpectation ==
    /\ call = Idle
    /\ UNCHANGED timer
    /\ \E f \in Integrands, vectorized \in BOOLEAN, pars \in ParsArgs, n \in NArgs,
          x \in {PyNone} \cup RuleArrays({R(-1, 1), One}) :
        \E w \in {PyNone} \cup RuleArrays(IF x = PyNone THEN {One} ELSE {One, R(2, 1)}),
           fp \in IF x = PyNone THEN ArithFew ELSE {ArithUnused} :
            call' = <<"gaussian_expectation",
                      [f |-> f, vectorized |-> vectorized, pars |-> pars,
                       n_given |-> n[1], n |-> n[2], x |-> x, w |-> w, fp |-> fp],
                      gaussian_expectation(f, vectorized, pars, n[2], x, w, fp),
                      gaussian_expectation_leaves(x, w)>>

NextQuad ==
    \/ CallGauher
    \/ CallGauleg
    \/ CallGaussianExpectation
    \/ Return

SpecQuad == Init /\ [][NextQuad]_vars

(* C7 as stated: in gauher a root whose Newton refinement has not reached  *)
(* the tolerance (two consecutive estimates within EPS) in MAXIT = 10      *)
(* iterations makes gauher abort, so no such root is ever stored and       *)
(* returned.                                                               *)
C7_Original ==
    (Op = "gauher" /\ \E k \in 1..Len(Log) : ~Log[k][3]) => Aborted(Out)

\* the nodes and the weights a call of gauher or gauleg returned
RetNodes == dataof(Value[2][1])

RetWeights == dataof(Value[2][2])

(* C8 as stated: for n >= 1 gauher(n) and gauleg(n) find (n + 1) div 2     *)
(* roots, return n nodes and n weights, and x[i] = -x[n-1-i] and           *)
(* w[i] = w[n-1-i] for every index i, the middle one of an odd n included. *)
C8_Original ==
    (Op \in {"gauher", "gauleg"} /\ Args.n >= 1 /\ Returned(Out)) =>
        /\ Len(Log) = (Args.n + 1) \div 2
        /\ Len(RetNodes) = Args.n
        /\ Len(RetWeights) = Args.n
        /\ \A i \in 1..Args.n :
            /\ RetNodes[i] = RNeg(RetNodes[Args.n + 1 - i])
            /\ RetWeights[i] = RetWeights[Args.n + 1 - i]

(* C8 as amended: for n >= 1 gauher(n) and gauleg(n) find (n + 1) div 2    *)
(* roots and return n nodes and n weights; node j from the left is minus   *)
(* the j-th root found and node j from the right is that root, so          *)
(* x[i] = -x[n-1-i] for every i other than the middle index, and           *)
(* w[i] = w[n-1-i] for every i.  The middle node of an odd n is the last   *)
(* Newton estimate of the middle root (negated by gauher), whatever it is. *)
C8_MirroredPairs ==
    (Op \in {"gauher", "gauleg"} /\ Args.n >= 1 /\ Returned(Out)) =>
        /\ Len(Log) = (Args.n + 1) \div 2
        /\ Len(RetNodes) = Args.n
        /\ Len(RetWeights) = Args.n
        /\ \A j \in 1..(Args.n \div 2) :
            /\ RetNodes[j] = R(-Log[j][1], 1)
            /\ RetNodes[Args.n + 1 - j] = R(Log[j][1], 1)
        /\ \A i \in 1..Args.n :
            /\ i # Args.n + 1 - i => RetNodes[i] = RNeg(RetNodes[Args.n + 1 - i])
            /\ RetWeights[i] = RetWeights[Args.n + 1 - i]
        /\ Args.n % 2 = 1 =>
            LET mid == (Args.n + 1) \div 2
            IN RetNodes[mid] = R(IF Op = "gauher" THEN -Log[mid][1] ELSE Log[mid][1], 1)

\* gauher(3) with a middle root that is not zero
C8_Witness ==
    /\ Op = "gauher"
    /\ Args.n = 3
    /\ Returned(Out)
    /\ RetNodes = <<R(-2, 1), R(-1, 1), R(2, 1)>>


(* C9 as stated: gaussian_expectation aborts when exactly one of x and w   *)
(* is supplied, or when both are supplied with different sizes; and with   *)
(* neither supplied and n left out it integrates over the 16-point         *)
(* Gauss-Hermite rule.                                                     *)
C9_Original ==
    Op = "gaussian_expectation" =>
        /\ ((Args.x = PyNone) # (Args.w = PyNone)) => Aborted(Out)
        /\ (/\ Args.x # PyNone
            /\ Args.w # PyNone
            /\ Len(dataof(Args.x)) # Len(dataof(Args.w))) => Aborted(Out)
        /\ (Args.x = PyNone /\ Args.w = PyNone /\ ~Args.n_given) =>
            Out = gaussian_expectation(Args.f, Args.vectorized, Args.pars, 16,
                                       PyNone, PyNone, Args.fp)

\* the call has a rule to integrate over: gauher's, or the caller's x and w
HasRule ==
    \/ Args.x = PyNone
    \/ /\ Args.x # PyNone
       /\ Args.w # PyNone
       /\ Len(dataof(Args.x)) = Len(dataof(Args.w))

\* that rule's nodes and weights, before their scaling
RuleX ==
    IF Args.x = PyNone THEN dataof(gauher(Args.n, Args.fp)[2][2][1])
    ELSE dataof(Args.x)

RuleW ==
    IF Args.x = PyNone THEN dataof(gauher(Args.n, Args.fp)[2][2][2])
    ELSE dataof(Args.w)

\* the integrand's exponent
PowerOfF == IF Args.f[1] = "f" THEN Args.f[2] ELSE Args.pars[2][1]

\* the sum over the indices i in 1..k of (ws[i] / sqrt(pi)) * (sqrt(2) * xs[i]) ** p,
\* in units of 1 / sqrt(pi), each index taken once
RECURSIVE WeightedSum(_, _, _, _)
WeightedSum(k, xs, ws, p) ==
    IF k = 0 THEN <<Zero, Zero>>
    ELSE S2Add(WeightedSum(k - 1, xs, ws, p),
               S2Mul(<<ws[k], Zero>>, S2Pow(<<Zero, xs[k]>>, p)))

\* what C10 promises of a call that has a rule and an integrand it can call
WeightedSumReturned ==
    /\ Returned(Out)
    /\ \A xs \in {RuleX}, ws \in {RuleW} :
        Value = OverSqrtPi(WeightedSum(Len(xs), xs, ws, PowerOfF))
    /\ Out = gaussian_expectation(Args.f, ~Args.vectorized, Args.pars, Args.n,
                                  Args.x, Args.w, Args.fp)
    /\ Out = gaussian_expectation(<<"f", PowerOfF>>, Args.vectorized, PyNone, Args.n,
                                  Args.x, Args.w, Args.fp)
    /\ Log = <<Args.x, Args.w>>

(* C10 as stated: over the rule (x, w), gaussian_expectation returns the   *)
(* sum over all node indices i of (w[i]/sqrt(pi)) * f(sqrt(2)*x[i]), each  *)
(* node once; the vectorized and the element-wise mode, with and without   *)
(* pars, return the same value; x and w are left as they were.             *)
C10_Original ==
    (Op = "gaussian_expectation" /\ HasRule /\ Callable(Args.f, Args.pars)) =>
        WeightedSumReturned

(* C10 as amended: the same, for every rule of at least one node.  (Over a *)
(* rule of no nodes the element-wise mode raises IndexError at weights[0]  *)
(* where the vectorized mode returns 0.)                                   *)
C10_WeightedSumNonEmptyRule ==
    (/\ Op = "gaussian_expectation"
     /\ HasRule
     /\ Callable(Args.f, Args.pars)
     /\ Len(RuleX) >= 1) => WeightedSumReturned

\* the rule x = [-1, 1], w = [1, 2] and f(x) = x in element-wise mode:
\* (1 * -sqrt(2) + 2 * sqrt(2)) / sqrt(pi)
C10_Witness ==
    /\ Op = "gaussian_expectation"
    /\ ~Args.vectorized
    /\ Args.f = <<"f", 1>>
    /\ Args.x # PyNone
    /\ Args.w # PyNone
    /\ dataof(Args.x) = <<R(-1, 1), One>>
    /\ dataof(Args.w) = <<One, R(2, 1)>>
    /\ Out = Ret(OverSqrtPi(<<Zero, One>>))


(***************************************************************************)
(* Distance covariances (distance_covariances.py).                         *)
(*                                                                         *)
(* numpy divides by zero without raising: x / 0 is inf, -inf or nan.       *)
(***************************************************************************)
\* the array whose k-th element is f[k], k in 1..n, stored element by element
Stored(f, n) ==
    LET RECURSIVE range(_, _)
        range(lo, hi) ==
            IF lo > hi THEN <<>>
            ELSE IF lo = hi THEN <<f[lo]>>
            ELSE range(lo, (lo + hi) \div 2) \o range((lo + hi) \div 2 + 1, hi)
    IN range(1, n)

\* np.sum of the first k elements of the flat sequence d
RECURSIVE np_sum(_, _)
np_sum(d, k) == IF k = 0 THEN Zero ELSE RAdd(np_sum(d, k - 1), d[k])

\* A[i, j] of a matrix, indices from 1
At(A, i, j) == dataof(A)[(i - 1) * shapeof(A)[2] + j]

\* np.sqrt of a float that is not negative: the number TNum(r) when the float
\* is the square of r, left as a term otherwise
np_sqrt(q) ==
    LET IsSquare(k) == \E r \in 0..k : r * r = k
        Root(k) == CHOOSE r \in 0..k : r * r = k
    IN IF IsSquare(q[1]) /\ IsSquare(q[2])
       THEN TNum(R(Root(q[1]), Root(q[2])))
       ELSE Term1("sqrt", q)

_compute_distances_signed(T) ==
    LET ndims_T == test_vector_or_matrix(ArrayOfShape(shapeof(T)), "caller")
        n == shapeof(T)[1]
    IN IF ~Returned(ndims_T) THEN ndims_T
       ELSE Ret(NdArray(<<n, n>>,
                Stored([k \in 1..(n * n) |->
                    RSub(dataof(T)[((k - 1) \div n) + 1], dataof(T)[((k - 1) % n) + 1])], n * n)))

_compute_distances(T) ==
    LET ndims_T == test_vector_or_matrix(ArrayOfShape(shapeof(T)), "caller")
        n == shapeof(T)[1]
        nv == shapeof(T)[2]
        absdiff(a, b) == LET d == RSub(a, b) IN <<Abs(d[1]), d[2]>>
        RECURSIVE sumsq(_, _, _)
        \* A[i, j] after the loop `for iv in range(nv)` has run iv times
        sumsq(i, j, iv) ==
            IF iv = 0 THEN Zero
            ELSE LET Aiv == RSub(At(T, i, iv), At(T, j, iv))
                 IN RAdd(sumsq(i, j, iv - 1), RMul(Aiv, Aiv))
    IN IF ~Returned(ndims_T) THEN ndims_T
       ELSE IF ndims_T[2] = PyInt(1)
       THEN Ret(NdArray(<<n, n>>,
                Stored([k \in 1..(n * n) |->
                    absdiff(dataof(T)[((k - 1) \div n) + 1], dataof(T)[((k - 1) % n) + 1])], n * n)))
       ELSE Ret(NdArray(<<n, n>>,
                Stored([k \in 1..(n * n) |->
                    LET r == np_sqrt(sumsq(((k - 1) \div n) + 1, ((k - 1) % n) + 1, nv))
                    IN IF r[1] = "num" THEN r[2] ELSE r], n * n)))

_double_decenter_means(A, unbiased) ==
    LET n_ == test_square(ArrayOfShape(shapeof(A)), "caller")
        n == n_[2][2]
        A_1 == Stored([j \in 1..n |-> np_sum([i \in 1..n |-> At(A, i, j)], n)], n)
        A_2 == Stored([i \in 1..n |-> np_sum([j \in 1..n |-> At(A, i, j)], n)], n)
        A_0 == np_sum(A_1, n)
        A_dd == Stored([k \in 1..(n * n) |->
                    LET i == ((k - 1) \div n) + 1
                        j == ((k - 1) % n) + 1
                    IN RAdd(RSub(RSub(At(A, i, j), RDiv(A_1[j], R(n, 1))),
                                 RDiv(A_2[i], R(n, 1))),
                            RDiv(A_0, R(n * n, 1)))], n * n)
    IN IF ~Returned(n_) THEN <<n_, A>>
       ELSE <<Ret(NdArray(<<n, n>>, A_dd)), A>>

_double_decenter_unfilled(A, unbiased) ==
    LET n_ == test_square(ArrayOfShape(shapeof(A)), "caller")
        n == n_[2][2]
        A_1 == Stored([j \in 1..n |-> np_sum([i \in 1..n |-> At(A, i, j)], n)], n)
        A_2 == Stored([i \in 1..n |-> np_sum([j \in 1..n |-> At(A, i, j)], n)], n)
        A_0 == np_sum(A_1, n)
        fac2 == IF unbiased THEN n - 2 ELSE n
        fac1 == IF unbiased THEN n - 1 ELSE n
        A_dd == Stored([k \in 1..(n * n) |->
                    LET i == ((k - 1) \div n) + 1
                        j == ((k - 1) % n) + 1
                    IN RAdd(RSub(RSub(At(A, i, j), RDiv(A_1[j], R(fac2, 1))),
                                 RDiv(A_2[i], R(fac2, 1))),
                            RDiv(A_0, R(fac1 * fac2, 1)))], n * n)
    IN IF ~Returned(n_) THEN <<n_, A>>
       ELSE <<Ret(NdArray(<<n, n>>, A_dd)), A>>

\* the pair of the call's outcome and of A as the call leaves it
_double_decenter(A, unbiased) ==
    LET n_ == test_square(ArrayOfShape(shapeof(A)), "caller")
        n == n_[2][2]
        A_1 == Stored([j \in 1..n |-> np_sum([i \in 1..n |-> At(A, i, j)], n)], n)
        A_2 == Stored([i \in 1..n |-> np_sum([j \in 1..n |-> At(A, i, j)], n)], n)
        A_0 == np_sum(A_1, n)
        fac2 == IF unbiased THEN n - 2 ELSE n
        fac1 == IF unbiased THEN n - 1 ELSE n
        A_dd == Stored([k \in 1..(n * n) |->
                    LET i == ((k - 1) \div n) + 1
                        j == ((k - 1) % n) + 1
                    IN RAdd(RSub(RSub(At(A, i, j), RDiv(A_1[j], R(fac2, 1))),
                                 RDiv(A_2[i], R(fac2, 1))),
                            RDiv(A_0, R(fac1 * fac2, 1)))], n * n)
        \* np.fill_diagonal(A_dd, np.zeros(n))
        filled == Stored([k \in 1..(n * n) |->
                    IF (k - 1) \div n = (k - 1) % n THEN Zero ELSE A_dd[k]], n * n)
    IN IF ~Returned(n_) THEN <<n_, A>>
       ELSE <<Ret(NdArray(<<n, n>>, IF unbiased THEN filled ELSE A_dd)), A>>

_dcov_prod_biased(A, B, unbiased) ==
    LET n_ == test_square(ArrayOfShape(shapeof(A)), "caller")
        m_ == test_square(ArrayOfShape(shapeof(B)), "caller")
        n == n_[2][2]
    IN IF ~Returned(n_) THEN n_
       ELSE IF ~Returned(m_) THEN m_
       ELSE IF m_ = n_
       THEN Ret(PyFloat(RDiv(np_sum([k \in 1..(n * n) |-> RMul(dataof(A)[k], dataof(B)[k])],
                                    n * n),
                             R(n * n, 1))))
       ELSE bs_error_abort("A and B should be square matrices of the same size")

_dcov_prod(A, B, unbiased) ==
    LET n_ == test_square(ArrayOfShape(shapeof(A)), "caller")
        m_ == test_square(ArrayOfShape(shapeof(B)), "caller")
        n == n_[2][2]
        fac3 == IF unbiased THEN n - 3 ELSE n
    IN IF ~Returned(n_) THEN n_
       ELSE IF ~Returned(m_) THEN m_
       ELSE IF m_ = n_
       THEN Ret(PyFloat(RDiv(np_sum([k \in 1..(n * n) |-> RMul(dataof(A)[k], dataof(B)[k])],
                                    n * n),
                             R(n * fac3, 1))))
       ELSE bs_error_abort("A and B should be square matrices of the same size")

\* num / sqrt(x): math.sqrt raises ValueError when x < 0
over_sqrt(num, x) ==
    IF RLt(x, Zero) THEN Raise("ValueError")
    ELSE IF np_sqrt(x)[1] = "num" THEN Ret(RDiv(num, np_sqrt(x)[2]))
    ELSE Ret(Term2("/", num, np_sqrt(x)))

\* {e(x) : x \in {v}} holds e(x) for the value x of v, v computed once
dcov_dcor(X, Y, unbiased) ==
    LET X_dist == _compute_distances(X)
        Y_dist == _compute_distances(Y)
        products(X_dd, Y_dd) ==
            LET n == shapeof(X_dist[2])[1]
                dcov2 == _dcov_prod(X_dd, Y_dd, unbiased)
                dcor2 == over_sqrt(dcov2[2][2],
                                   RMul(_dcov_prod(X_dd, X_dd, unbiased)[2][2],
                                        _dcov_prod(Y_dd, Y_dd, unbiased)[2][2]))
            IN IF ~Returned(dcov2) THEN dcov2
               ELSE IF ~Returned(dcor2) THEN dcor2
               ELSE Ret([dcov |-> dcov2[2][2], dcor |-> dcor2[2],
                         X_dd |-> X_dd, Y_dd |-> Y_dd, unbiased |-> unbiased,
                         dcov_stat |-> RMul(R(n, 1), dcov2[2][2])])
    IN IF ~Returned(X_dist) THEN X_dist
       ELSE IF ~Returned(Y_dist) THEN Y_dist
       ELSE CHOOSE r \in {products(X_dd, Y_dd) :
                            X_dd \in {_double_decenter(X_dist[2], unbiased)[1][2]},
                            Y_dd \in {_double_decenter(Y_dist[2], unbiased)[1][2]}} : TRUE

\* A[draws, :][:, draws]: a new array, A is left as it is.  The generator rng
\* is a sequence of index vectors: call idraw (from 0) of
\* np.random.choice(np.arange(n), n) returns rng[(idraw % Len(rng)) + 1].
Resampled(A, draws) ==
    LET n == Len(draws)
    IN NdArray(<<n, n>>,
               Stored([k \in 1..(n * n) |->
                   At(A, draws[((k - 1) \div n) + 1], draws[((k - 1) % n) + 1])], n * n))

_dcov_bootstrap_nested(X_dd, Y_dd, unbiased, ndraws, rng) ==
    LET n == shapeof(X_dd)[1]
        RECURSIVE X_ddi(_)
        X_ddi(idraw) ==
            Resampled(IF idraw = 0 THEN X_dd ELSE X_ddi(idraw - 1),
                      rng[(idraw % Len(rng)) + 1])
        RECURSIVE Y_ddi(_)
        Y_ddi(idraw) ==
            Resampled(IF idraw = 0 THEN Y_dd ELSE Y_ddi(idraw - 1),
                      rng[(idraw % Len(rng)) + 1])
        dcov_stats_boot ==
            [k \in 1..ndraws |-> LET idraw == k - 1 IN
                RMul(R(n, 1), _dcov_prod(X_ddi(idraw), Y_ddi(idraw), unbiased)[2][2])]
    IN Stored(dcov_stats_boot, ndraws)

_dcov_bootstrap(X_dd, Y_dd, unbiased, ndraws, rng) ==
    LET n == shapeof(X_dd)[1]
        dcov_stats_boot ==
            [k \in 1..ndraws |-> LET idraw == k - 1 IN
                LET draws == rng[(idraw % Len(rng)) + 1]
                IN CHOOSE r \in {RMul(R(n, 1), _dcov_prod(X_ddi, Y_ddi, unbiased)[2][2]) :
                                    X_ddi \in {Resampled(X_dd, draws)},
                                    Y_ddi \in {Resampled(Y_dd, draws)}} : TRUE]
    IN Stored(dcov_stats_boot, ndraws)

\* the outcome, the result record as the call leaves it, the bootstrapped
\* statistics
pvalue_dcov(dcov_results, ndraws, rng) ==
    LET X_dd == dcov_results.X_dd
        Y_dd == dcov_results.Y_dd
        dcov_stat == dcov_results.dcov_stat
        unbiased == dcov_results.unbiased
        dcov_stats_boot == _dcov_bootstrap(X_dd, Y_dd, unbiased, ndraws, rng)
        exceeds == {k \in 1..ndraws : RLt(dcov_stat, dcov_stats_boot[k])}
    IN <<Ret(PyFloat(RDiv(RAdd(One, R(Cardinality(exceeds), 1)), R(1 + ndraws, 1)))),
         dcov_results, dcov_stats_boot>>

pdcov_pdcor_biased(X, Y, Z) ==
    LET unbiased == FALSE
        X_dist == _compute_distances(X)
        Y_dist == _compute_distances(Y)
        Z_dist == _compute_distances(Z)
        products(X_dd, Y_dd, Z_dd) ==
            LET C_XX == _dcov_prod(X_dd, X_dd, unbiased)[2][2]
                C_XY == _dcov_prod(X_dd, Y_dd, unbiased)
                C_YY == _dcov_prod(Y_dd, Y_dd, unbiased)[2][2]
                C_XZ == _dcov_prod(X_dd, Z_dd, unbiased)
                C_YZ == _dcov_prod(Y_dd, Z_dd, unbiased)[2][2]
                C_ZZ == _dcov_prod(Z_dd, Z_dd, unbiased)[2][2]
                pdcov == RSub(C_XY[2][2], RDiv(RMul(C_XZ[2][2], C_YZ), C_ZZ))
                pdcor == over_sqrt(pdcov,
                            RMul(RSub(C_XX, RDiv(RMul(C_XZ[2][2], C_XZ[2][2]), C_ZZ)),
                                 RSub(C_YY, RDiv(RMul(C_YZ, C_YZ), C_ZZ))))
                n == shapeof(X)[1]
            IN IF ~Returned(C_XY) THEN C_XY
               ELSE IF ~Returned(C_XZ) THEN C_XZ
               ELSE IF ~Returned(pdcor) THEN pdcor
               ELSE Ret([pdcov |-> pdcov, pdcor |-> pdcor[2], pdcov_stat |-> RMul(R(n, 1), pdcov),
                         X_dd |-> X_dd, Y_dd |-> Y_dd, Z_dd |-> Z_dd])
    IN IF ~Returned(X_dist) THEN X_dist
       ELSE IF ~Returned(Y_dist) THEN Y_dist
       ELSE IF ~Returned(Z_dist) THEN Z_dist
       ELSE CHOOSE r \in {products(X_dd, Y_dd, Z_dd) :
                            X_dd \in {_double_decenter(X_dist[2], unbiased)[1][2]},
                            Y_dd \in {_double_decenter(Y_dist[2], unbiased)[1][2]},
                            Z_dd \in {_double_decenter(Z_dist[2], unbiased)[1][2]}} : TRUE

pdcov_pdcor(X, Y, Z) ==
    LET unbiased == TRUE
        X_dist == _compute_distances(X)
        Y_dist == _compute_distances(Y)
        Z_dist == _compute_distances(Z)
        products(X_dd, Y_dd, Z_dd) ==
            LET C_XX == _dcov_prod(X_dd, X_dd, unbiased)[2][2]
                C_XY == _dcov_prod(X_dd, Y_dd, unbiased)
                C_YY == _dcov_prod(Y_dd, Y_dd, unbiased)[2][2]
                C_XZ == _dcov_prod(X_dd, Z_dd, unbiased)
                C_YZ == _dcov_prod(Y_dd, Z_dd, unbiased)[2][2]
                C_ZZ == _dcov_prod(Z_dd, Z_dd, unbiased)[2][2]
                pdcov == RSub(C_XY[2][2], RDiv(RMul(C_XZ[2][2], C_YZ), C_ZZ))
                pdcor == over_sqrt(pdcov,
                            RMul(RSub(C_XX, RDiv(RMul(C_XZ[2][2], C_XZ[2][2]), C_ZZ)),
                                 RSub(C_YY, RDiv(RMul(C_YZ, C_YZ), C_ZZ))))
                n == shapeof(X)[1]
            IN IF ~Returned(C_XY) THEN C_XY
               ELSE IF ~Returned(C_XZ) THEN C_XZ
               ELSE IF ~Returned(pdcor) THEN pdcor
               ELSE Ret([pdcov |-> pdcov, pdcor |-> pdcor[2], pdcov_stat |-> RMul(R(n, 1), pdcov),
                         X_dd |-> X_dd, Y_dd |-> Y_dd, Z_dd |-> Z_dd])
    IN IF ~Returned(X_dist) THEN X_dist
       ELSE IF ~Returned(Y_dist) THEN Y_dist
       ELSE IF ~Returned(Z_dist) THEN Z_dist
       ELSE CHOOSE r \in {products(X_dd, Y_dd, Z_dd) :
                            X_dd \in {_double_decenter(X_dist[2], unbiased)[1][2]},
                            Y_dd \in {_double_decenter(Y_dist[2], unbiased)[1][2]},
                            Z_dd \in {_double_decenter(Z_dist[2], unbiased)[1][2]}} : TRUE

_pdcovs_bootstrap(X_dd, Y_dd, Z_dd, ndraws, rng) ==
    LET unbiased == TRUE
        n == shapeof(X_dd)[1]
        pdcov_stats_boot ==
            [k \in 1..ndraws |-> LET idraw == k - 1 IN
                LET draws == rng[(idraw % Len(rng)) + 1]
                    pdcov(X_ddi, Y_ddi, Z_ddi) ==
                        LET C_XY == _dcov_prod(X_ddi, Y_ddi, unbiased)[2][2]
                            C_XZ == _dcov_prod(X_ddi, Z_ddi, unbiased)[2][2]
                            C_YZ == _dcov_prod(Y_ddi, Z_ddi, unbiased)[2][2]
                            C_ZZ == _dcov_prod(Z_ddi, Z_ddi, unbiased)[2][2]
                        IN RSub(C_XY, RDiv(RMul(C_XZ, C_YZ), C_ZZ))
                IN CHOOSE r \in {RMul(R(n, 1), pdcov(X_ddi, Y_ddi, Z_ddi)) :
                                    X_ddi \in {Resampled(X_dd, draws)},
                                    Y_ddi \in {Resampled(Y_dd, draws)},
                                    Z_ddi \in {Resampled(Z_dd, draws)}} : TRUE]
    IN Stored(pdcov_stats_boot, ndraws)

pvalue_pdcov(pdcov_results, ndraws, rng) ==
    LET X_dd == pdcov_results.X_dd
        Y_dd == pdcov_results.Y_dd
        Z_dd == pdcov_results.Z_dd
        pdcov_stat == pdcov_results.pdcov_stat
        pdcov_stats_boot == _pdcovs_bootstrap(X_dd, Y_dd, Z_dd, ndraws, rng)
        exceeds == {k \in 1..ndraws : RLt(pdcov_stat, pdcov_stats_boot[k])}
    IN <<Ret(PyFloat(RDiv(RAdd(One, R(Cardinality(exceeds), 1)), R(1 + ndraws, 1)))),
         pdcov_results, pdcov_stats_boot>>

(***************************************************************************)
(* Calls of the distance-covariance functions.                             *)
(***************************************************************************)
MaxObs == 3       \* samples have 0..MaxObs observations
MaxDraws == 2     \* a bootstrap makes 0..MaxDraws draws, or the default number
DefaultNdraws == 199

\* samples of four observations at three distances, and one of three
LongVectors ==
    {NdArray(<<4>>, <<Zero, One, R(3, 1), Zero>>),
     NdArray(<<4>>, <<Zero, Zero, One, R(3, 1)>>),
     NdArray(<<4>>, <<One, Zero, R(3, 1), R(3, 1)>>),
     NdArray(<<3>>, <<Zero, One, R(3, 1)>>)}

\* samples of one variable: the vectors of 0..MaxObs observations 0 or 1, and
\* the samples above
Vectors ==
    UNION {{NdArray(<<n>>, d) : d \in Tuples({Zero, One}, n)} : n \in 0..MaxObs}
        \cup LongVectors

\* square matrices: the distances of a sample, made asymmetric by adding a
\* skew above the diagonal; and two arrays that are not square matrices
Matrices(skews) ==
    LET Skewed(v, skew) ==
            LET n == shapeof(v)[1]
                D == dataof(_compute_distances(v)[2])
            IN NdArray(<<n, n>>,
                       Stored([k \in 1..(n * n) |->
                                  IF (k - 1) \div n < (k - 1) % n
                                  THEN RAdd(D[k], skew) ELSE D[k]], n * n))
    IN {Skewed(v, skew) : v \in Vectors, skew \in skews}
       \cup {NdArray(<<1, 2>>, <<Zero, One>>), NdArray(<<2>>, <<Zero, One>>)}

\* the generators: sequences of `draws` index vectors np.random.choice may
\* return for n observations, which are: every observation once, the first
\* observation twice, the first observation only
Generators(n, draws) ==
    Tuples({[i \in 1..n |-> i], [i \in 1..n |-> IF i = 1 THEN 1 ELSE i - 1],
            [i \in 1..n |-> 1]}, draws)

\* ndraws as the caller gives it: a number, or nothing for the default
NdrawsArgs == {PyInt(k) : k \in 0..MaxDraws} \cup {PyNone}

\* a vector, a sample of two variables, an array of rank 0, one of rank 3
CallComputeDistances ==
    /\ call = Idle
    /\ UNCHANGED timer
    /\ \E T \in Vectors
                \cup {NdArray(<<n, 2>>, <<Zero, One, One, R(3, 1)>>) : n \in 1..2}
                \cup {NdArray(<<>>, <<One>>), NdArray(<<1, 1, 1>>, <<One>>)} :
        call' = <<"_compute_distances", [T |-> T], _compute_distances(T)>>

CallDoubleDecenter ==
    /\ call = Idle
    /\ UNCHANGED timer
    /\ \E A \in Matrices({Zero, One}), unbiased \in BOOLEAN :
       \E out \in {_double_decenter(A, unbiased)} :
        call' = <<"_double_decenter", [A |-> A, unbiased |-> unbiased], out[1], out[2]>>

CallDcovProd ==
    /\ call = Idle
    /\ UNCHANGED timer
    /\ \E A \in Matrices({Zero, One}), B \in Matrices({Zero}), unbiased \in BOOLEAN :
        call' = <<"_dcov_prod", [A |-> A, B |-> B, unbiased |-> unbiased],
                  _dcov_prod(A, B, unbiased)>>

CallDcovDcor ==
    /\ call = Idle
    /\ UNCHANGED timer
    /\ \E X \in Vectors \cup {NdArray(<<>>, <<One>>)}, Y \in Vectors, unbiased \in BOOLEAN :
        call' = <<"dcov_dcor", [X |-> X, Y |-> Y, unbiased |-> unbiased],
                  dcov_dcor(X, Y, unbiased)>>

\* the results of dcov_dcor for a sample X and for Y, X itself or its mirror;
\* the default number of draws is made with one index vector, drawn each time
CallPvalueDcov ==
    /\ call = Idle
    /\ UNCHANGED timer
    /\ \E X \in Vectors :
       \E Y \in {X, NdArray(shapeof(X), Reverse(dataof(X)))}, unbiased \in BOOLEAN :
       \E dcov_results \in {dcov_dcor(X, Y, unbiased)[2]} :
       \E ndraws \in IF X \in LongVectors THEN NdrawsArgs ELSE NdrawsArgs \ {PyNone} :
       \E rng \in IF ndraws = PyNone THEN Generators(shapeof(X)[1], 1)
                  ELSE Generators(shapeof(X)[1], MaxDraws) :
       \E out \in {pvalue_dcov(dcov_results,
                               IF ndraws = PyNone THEN DefaultNdraws ELSE ndraws[2], rng)} :
          call' = <<"pvalue_dcov",
                    [dcov_results |-> dcov_results, ndraws |-> ndraws, rng |-> rng],
                    out[1], <<out[2], out[3]>> >>

CallPdcovPdcor ==
    /\ call = Idle
    /\ UNCHANGED timer
    /\ \E X \in LongVectors, Y \in LongVectors, Z \in LongVectors :
        call' = <<"pdcov_pdcor", [X |-> X, Y |-> Y, Z |-> Z], pdcov_pdcor(X, Y, Z)>>

\* the results of pdcov_pdcor for three samples
CallPvaluePdcov ==
    /\ call = Idle
    /\ UNCHANGED timer
    /\ \E X \in LongVectors, Y \in LongVectors, Z \in LongVectors :
       \E res \in {pdcov_pdcor(X, Y, Z)} :
        /\ Returned(res)
        /\ \E ndraws \in IF X = Y /\ Y = Z THEN NdrawsArgs ELSE NdrawsArgs \ {PyNone} :
           \E rng \in IF ndraws = PyNone THEN Generators(shapeof(X)[1], 1)
                      ELSE Generators(shapeof(X)[1], MaxDraws) :
           \E out \in {pvalue_pdcov(res[2],
                                    IF ndraws = PyNone THEN DefaultNdraws ELSE ndraws[2],
                                    rng)} :
              call' = <<"pvalue_pdcov",
                        [pdcov_results |-> res[2], ndraws |-> ndraws, rng |-> rng],
                        out[1], <<out[2], out[3]>> >>

NextDcov ==
    \/ CallComputeDistances
    \/ CallDoubleDecenter
    \/ CallDcovProd
    \/ CallDcovDcor
    \/ CallPvalueDcov
    \/ CallPdcovPdcor
    \/ CallPvaluePdcov
    \/ Return

SpecDcov == Init /\ [][NextDcov]_vars

PvalueOps == {"pvalue_dcov", "pvalue_pdcov"}

\* the result record a p-value call was given, and its observed statistic
ResultsArg == IF Op = "pvalue_dcov" THEN Args.dcov_results ELSE Args.pdcov_results

ObservedStat ==
    IF Op = "pvalue_dcov" THEN Args.dcov_results.dcov_stat
    ELSE Args.pdcov_results.pdcov_stat

\* the bootstrap statistics the call drew
BootStats == Log[2]

(* C11 as stated: the p-value returned by pvalue_dcov and pvalue_pdcov is
   (1 + the number of bootstrap statistics at least as large as the observed
   statistic, ties included) / (1 + ndraws), and exactly ndraws statistics
   are drawn, 199 when ndraws is not given. *)
C11_Original ==
    (Op \in PvalueOps /\ Returned(Out)) =>
        LET ndraws == IF Args.ndraws = PyNone THEN DefaultNdraws ELSE Args.ndraws[2]
            atleast == {k \in 1..Len(BootStats) :
                          \/ RLt(ObservedStat, BootStats[k])
                          \/ (BootStats[k] = ObservedStat /\ ObservedStat # <<0, 0>>)}
        IN /\ Len(BootStats) = ndraws
           /\ Value = PyFloat(RDiv(R(1 + Cardinality(atleast), 1), R(1 + ndraws, 1)))

\* the permutations of 1..n
Perms(n) == {p \in [1..n -> 1..n] : \A i, j \in 1..n : p[i] = p[j] => i = j}

\* the p-value call of the state, made with the generator rng instead
PvalueWith(rng, ndraws) ==
    IF Op = "pvalue_dcov" THEN pvalue_dcov(Args.dcov_results, ndraws, rng)
    ELSE pvalue_pdcov(Args.pdcov_results, ndraws, rng)

(* C12: the bootstrap p-value does not depend on the order of the draws: for
   the same index vectors drawn in any other order the call returns the same
   p-value; the statistic of a draw is the statistic a bootstrap of that one
   index vector alone gives; and the result record is left as it was. *)
C12_OrderIndependent ==
    (Op \in PvalueOps /\ Returned(Out) /\ Args.ndraws # PyNone) =>
        LET ndraws == Args.ndraws[2]
            rng == Args.rng
        IN /\ Log[1] = ResultsArg
           /\ \A k \in 1..ndraws : BootStats[k] = PvalueWith(<<rng[k]>>, 1)[3][1]
           /\ \A p \in Perms(ndraws) :
                PvalueWith([k \in 1..Len(rng) |-> IF k <= ndraws THEN rng[p[k]] ELSE rng[k]],
                           ndraws)[1] = Out

C12_Witness ==
    /\ Op = "pvalue_dcov"
    /\ Returned(Out)
    /\ Args.ndraws = PyInt(2)
    /\ Args.rng[1] # Args.rng[2]
    /\ RLt(ObservedStat, BootStats[1])
    /\ RLt(BootStats[2], ObservedStat)
    /\ Value = PyFloat(R(2, 3))

\* A is a square matrix: rank 2 and as many rows as columns
SquareMatrix(A) == Len(shapeof(A)) = 2 /\ shapeof(A)[1] = shapeof(A)[2]

\* the sum over the rows i and the columns j of an n x n matrix of A[i,j]*B[i,j]
EntrySum(A, B) ==
    LET n == shapeof(A)[1]
        RECURSIVE upto(_, _)
        \* the products of the rows before row i, and of row i up to column j
        upto(i, j) ==
            IF i = 0 THEN Zero
            ELSE IF j = 0 THEN upto(i - 1, n)
            ELSE RAdd(upto(i, j - 1), RMul(At(A, i, j), At(B, i, j)))
    IN upto(n, n)

(* C13: _dcov_prod(A, B, unbiased) aborts when A or B is not a square matrix
   or when they differ in size, and otherwise returns the sum of the products
   A[i,j]*B[i,j] divided by n*n (biased) or by n*(n-3) (unbiased); dcov_dcor
   aborts on two samples with different numbers of observations. *)
C13_DcovProd ==
    /\ Op = "_dcov_prod" =>
        LET A == Args.A
            B == Args.B
            n == shapeof(A)[1]
            divisor == IF Args.unbiased THEN n * (n - 3) ELSE n * n
        IN IF SquareMatrix(A) /\ SquareMatrix(B) /\ shapeof(A) = shapeof(B)
           THEN Out = Ret(PyFloat(RDiv(EntrySum(A, B), R(divisor, 1))))
           ELSE Aborted(Out)
    /\ (/\ Op = "dcov_dcor"
        /\ Len(shapeof(Args.X)) = 1
        /\ shapeof(Args.X) # shapeof(Args.Y)) => Aborted(Out)

C13_Witness ==
    /\ Op = "_dcov_prod"
    /\ Args.unbiased
    /\ shapeof(Args.A) = <<2, 2>>
    /\ Args.A # Args.B
    /\ Returned(Out)
    /\ RLt(Value[2], Zero)

\* A[i,j] - (sum of column j)/f2 - (sum of row i)/f2 + (sum of all entries)/(f1*f2)
Centered(A, i, j, f1, f2) ==
    LET n == shapeof(A)[1]
        RECURSIVE col(_)
        col(k) == IF k = 0 THEN Zero ELSE RAdd(col(k - 1), At(A, k, j))
        RECURSIVE row(_)
        row(k) == IF k = 0 THEN Zero ELSE RAdd(row(k - 1), At(A, i, k))
        total == EntrySum(A, NdArray(shapeof(A), [k \in 1..(n * n) |-> One]))
    IN RAdd(RSub(RSub(At(A, i, j), RDiv(col(n), R(f2, 1))), RDiv(row(n), R(f2, 1))),
            RDiv(total, R(f1 * f2, 1)))

\* the factors f1 and f2 of a call of _double_decenter
Factor1 == IF Args.unbiased THEN shapeof(Args.A)[1] - 1 ELSE shapeof(Args.A)[1]

Factor2 == IF Args.unbiased THEN shapeof(Args.A)[1] - 2 ELSE shapeof(Args.A)[1]

(* C14 as stated: for a square n x n matrix A, every entry (i,j) of
   _double_decenter(A, unbiased) is A[i,j] - (sum of column j)/f2
   - (sum of row i)/f2 + (sum of all entries)/(f1*f2), with f1 = f2 = n when
   biased and f1 = n-1, f2 = n-2 when unbiased; every diagonal entry is zero
   in the unbiased case; A is not modified. *)
C14_Original ==
    (Op = "_double_decenter" /\ SquareMatrix(Args.A)) =>
        LET n == shapeof(Args.A)[1]
        IN /\ Returned(Out)
           /\ shapeof(Value) = <<n, n>>
           /\ \A i, j \in 1..n : At(Value, i, j) = Centered(Args.A, i, j, Factor1, Factor2)
           /\ Args.unbiased => \A i \in 1..n : At(Value, i, i) = Zero
           /\ Log = Args.A

(* C14 amended: the formula gives every entry in the biased case, and the
   entries off the diagonal in the unbiased case when n >= 3; in the unbiased
   case every diagonal entry is zero whatever the formula gives, and for
   n = 2 the entries off the diagonal are not finite (f2 = 0); A is not
   modified. *)
C14_DoubleDecenter ==
    (Op = "_double_decenter" /\ SquareMatrix(Args.A)) =>
        LET n == shapeof(Args.A)[1]
        IN /\ Returned(Out)
           /\ shapeof(Value) = <<n, n>>
           /\ \A i, j \in 1..n :
                IF Args.unbiased /\ i = j THEN At(Value, i, j) = Zero
                ELSE IF Args.unbiased /\ n = 2 THEN At(Value, i, j)[2] = 0
                ELSE /\ At(Value, i, j) = Centered(Args.A, i, j, Factor1, Factor2)
                     /\ At(Value, i, j)[2] # 0
           /\ Log = Args.A

\* an unbiased call on a 3 x 3 matrix for which the formula is not zero on
\* the diagonal, and which returns entries that are not zero
C14_Witness ==
    /\ Op = "_double_decenter"
    /\ Args.unbiased
    /\ shapeof(Args.A) = <<3, 3>>
    /\ Returned(Out)
    /\ \E i \in 1..3 : Centered(Args.A, i, i, 2, 1) # Zero
    /\ \E i, j \in 1..3 : At(Value, i, j) # Zero
    /\ Log = Args.A

\* the distances |x[i] - x[j]| of a sample x of one variable
Distances(x) ==
    LET n == shapeof(x)[1]
    IN NdArray(<<n, n>>,
               [k \in 1..(n * n) |->
                   LET d == RSub(dataof(x)[((k - 1) \div n) + 1], dataof(x)[((k - 1) % n) + 1])
                   IN IF RLt(d, Zero) THEN RNeg(d) ELSE d])

\* the unbiased double centering of a matrix D: f1 = n-1, f2 = n-2, zero diagonal
UCentered(D) ==
    LET n == shapeof(D)[1]
    IN NdArray(<<n, n>>,
               [k \in 1..(n * n) |->
                   LET i == ((k - 1) \div n) + 1
                       j == ((k - 1) % n) + 1
                   IN IF i = j THEN Zero ELSE Centered(D, i, j, n - 1, n - 2)])

\* the unbiased product of two centered matrices
UProd(A, B) == RDiv(EntrySum(A, B), R(shapeof(A)[1] * (shapeof(A)[1] - 3), 1))

\* C_XY - C_XZ*C_YZ/C_ZZ of three centered matrices
Partial(X_dd, Y_dd, Z_dd) ==
    RSub(UProd(X_dd, Y_dd),
         RDiv(RMul(UProd(X_dd, Z_dd), UProd(Y_dd, Z_dd)), UProd(Z_dd, Z_dd)))

\* the rows and columns of A picked by an index vector
Picked(A, draws) ==
    LET n == Len(draws)
    IN NdArray(<<n, n>>,
               [k \in 1..(n * n) |->
                   At(A, draws[((k - 1) \div n) + 1], draws[((k - 1) % n) + 1])])

(* C15: pdcov_pdcor has no option for the estimator and uses the unbiased one
   for every double centering and every product; its pdcov is
   C_XY - C_XZ*C_YZ/C_ZZ and its pdcov_stat is n*pdcov; every bootstrap
   statistic of pvalue_pdcov is n times the same formula on the matrices
   resampled with the index vector of the draw. *)
C15_PartialUnbiased ==
    /\ Op = "pdcov_pdcor" =>
        /\ DOMAIN Args = {"X", "Y", "Z"}
        /\ Returned(Out) =>
            LET n == shapeof(Args.X)[1]
            IN /\ Value.X_dd = UCentered(Distances(Args.X))
               /\ Value.Y_dd = UCentered(Distances(Args.Y))
               /\ Value.Z_dd = UCentered(Distances(Args.Z))
               /\ Value.pdcov = Partial(Value.X_dd, Value.Y_dd, Value.Z_dd)
               /\ Value.pdcov_stat = RMul(R(n, 1), Value.pdcov)
    /\ (Op = "pvalue_pdcov" /\ Returned(Out)) =>
        LET res == Args.pdcov_results
            n == shapeof(res.X_dd)[1]
        IN /\ DOMAIN Args = {"pdcov_results", "ndraws", "rng"}
           /\ res.pdcov = Partial(res.X_dd, res.Y_dd, res.Z_dd)
           /\ res.pdcov_stat = RMul(R(n, 1), res.pdcov)
           /\ \A k \in 1..Len(BootStats) :
                LET draws == Args.rng[((k - 1) % Len(Args.rng)) + 1]
                IN BootStats[k] = RMul(R(n, 1), Partial(Picked(res.X_dd, draws),
                                                        Picked(res.Y_dd, draws),
                                                        Picked(res.Z_dd, draws)))

\* a bootstrap of a partial distance covariance which is a number, and not
\* C_XY, with a statistic which is a number other than zero and other than
\* the observed one
C15_Witness ==
    /\ Op = "pvalue_pdcov"
    /\ Returned(Out)
    /\ Args.ndraws = PyInt(2)
    /\ Args.pdcov_results.pdcov[2] # 0
    /\ Args.pdcov_results.pdcov # UProd(Args.pdcov_results.X_dd, Args.pdcov_results.Y_dd)
    /\ \E k \in 1..2 : /\ BootStats[k][2] # 0
                       /\ BootStats[k] # Zero
                       /\ BootStats[k] # ObservedStat

(* C16: on a vector x of n observations _compute_distances returns the n x n
   matrix of the |x[i] - x[j]|, which is symmetric, has a zero diagonal and
   no negative entry; on an array of rank 3 or more it aborts. *)
C16_Distances ==
    Op = "_compute_distances" =>
        LET x == Args.T
            n == shapeof(x)[1]
        IN /\ Len(shapeof(x)) = 1 =>
                /\ Returned(Out)
                /\ shapeof(Value) = <<n, n>>
                /\ \A i, j \in 1..n :
                    /\ At(Value, i, j) = IF RLt(dataof(x)[i], dataof(x)[j])
                                         THEN RSub(dataof(x)[j], dataof(x)[i])
                                         ELSE RSub(dataof(x)[i], dataof(x)[j])
                    /\ At(Value, i, j) = At(Value, j, i)
                    /\ RLe(Zero, At(Value, i, j))
                /\ \A i \in 1..n : At(Value, i, i) = Zero
           /\ Len(shapeof(x)) >= 3 => Aborted(Out)

\* four observations, not in increasing order, at several distances
C16_Witness ==
    /\ Op = "_compute_distances"
    /\ shapeof(Args.T) = <<4>>
    /\ RLt(dataof(Args.T)[2], dataof(Args.T)[1])
    /\ Returned(Out)
    /\ At(Value, 1, 2) = At(Value, 2, 1)
    /\ RLt(Zero, At(Value, 1, 2))
    /\ RLt(At(Value, 1, 2), At(Value, 1, 3))

\* A is symmetric
Symmetric(A) == \A i, j \in 1..shapeof(A)[1] : At(A, i, j) = At(A, j, i)

\* the sum of the entries (i, 1..k) of A when byrow, of the entries (1..k, i)
\* otherwise
RECURSIVE LineSum(_, _, _, _)
LineSum(A, i, k, byrow) ==
    IF k = 0 THEN Zero
    ELSE RAdd(LineSum(A, i, k - 1, byrow), IF byrow THEN At(A, i, k) ELSE At(A, k, i))

(* C29: for a symmetric n x n matrix A of distances with a zero diagonal,
   every row sum and every column sum of _double_decenter(A, unbiased) is
   zero and the result is symmetric, in the biased case for n >= 1 and in the
   unbiased case for n >= 3. *)
C29_CenteredSums ==
    (/\ Op = "_double_decenter"
     /\ SquareMatrix(Args.A)
     /\ Symmetric(Args.A)
     /\ \A i \in 1..shapeof(Args.A)[1] : At(Args.A, i, i) = Zero
     /\ shapeof(Args.A)[1] >= (IF Args.unbiased THEN 3 ELSE 1)) =>
        LET n == shapeof(Args.A)[1]
        IN /\ Returned(Out)
           /\ Symmetric(Value)
           /\ \A i \in 1..n : /\ LineSum(Value, i, n, TRUE) = Zero
                              /\ LineSum(Value, i, n, FALSE) = Zero

\* the unbiased centering of the distances of four observations, with
\* entries that are not zero
C29_Witness ==
    /\ Op = "_double_decenter"
    /\ Args.unbiased
    /\ shapeof(Args.A) = <<4, 4>>
    /\ Symmetric(Args.A)
    /\ \A i \in 1..4 : At(Args.A, i, i) = Zero
    /\ Returned(Out)
    /\ \E i, j \in 1..4 : RLt(Zero, At(Value, i, j))
    /\ \E i, j \in 1..4 : RLt(At(Value, i, j), Zero)
    /\ \A i \in 1..4 : LineSum(Value, i, 4, TRUE) = Zero

(***************************************************************************)
(* The Timer class (Timer.py).  A method is an operator of the object and  *)
(* of the reading `now` that self._func() returns if the method calls it;  *)
(* it gives the pair of the call's outcome and of the object as the call   *)
(* leaves it.  An exception is <<class, message>>.                         *)
(***************************************************************************)
MaxClock == 3     \* the clock returns the readings 0..MaxClock
MaxCalls == 6     \* methods are called at most MaxCalls times

running(self) == self._start # PyNone

start(self, now) ==
    IF self._start # PyNone THEN <<Raise(<<"RuntimeError", "Already started">>), self>>
    ELSE <<Ret(PyNone), [self EXCEPT !._start = PyFloat(now)]>>

stop_still_running(self, now) ==
    IF self._start = PyNone THEN <<Raise(<<"RuntimeError", "Not started">>), self>>
    ELSE <<Ret(PyNone), [self EXCEPT !.elapsed = RAdd(@, RSub(now, self._start[2]))]>>

stop_restarting(self, now) ==
    IF self._start = PyNone THEN <<Raise(<<"RuntimeError", "Not started">>), self>>
    ELSE <<Ret(PyNone), [self EXCEPT !.elapsed = RSub(now, self._start[2]),
                                     !._start = PyNone]>>

stop(self, now) ==
    IF self._start = PyNone THEN <<Raise(<<"RuntimeError", "Not started">>), self>>
    ELSE LET end == now
         IN <<Ret(PyNone), [self EXCEPT !.elapsed = RAdd(@, RSub(end, self._start[2])),
                                        !._start = PyNone]>>

reset_stopping(self) == <<Ret(PyNone), [self EXCEPT !.elapsed = Zero, !._start = PyNone]>>

reset(self) == <<Ret(PyNone), [self EXCEPT !.elapsed = Zero]>>

\* with Timer() as t: entering calls start and returns the object
__enter__(self, now) ==
    LET started == start(self, now)
    IN IF Returned(started[1]) THEN <<Ret(started[2]), started[2]>> ELSE started

\* leaving the with block calls stop, whatever *args says
__exit__(self, now) == stop(self, now)

StartOps == {"start", "__enter__"}

StopOps == {"stop", "__exit__"}

\* the timer and its history after the method op gave res when the clock
\* read now
Recorded(op, res, now) ==
    LET started == op \in StartOps /\ Returned(res[1])
        stopped == op \in StopOps /\ Returned(res[1])
        read == started \/ stopped
    IN [self |-> res[2],
        clock |-> IF read THEN now ELSE timer.clock,
        monotone |-> timer.monotone /\ (read => RLe(timer.clock, now)),
        begun |-> IF started THEN now ELSE timer.begun,
        completed |-> IF stopped THEN Append(timer.completed, <<timer.begun, now>>)
                      ELSE IF op = "reset" THEN <<>>
                      ELSE timer.completed,
        last |-> IF started THEN "start" ELSE IF stopped THEN "stop" ELSE timer.last,
        resets |-> IF op = "reset" THEN timer.resets + 1 ELSE timer.resets,
        calls |-> timer.calls + 1]

Readings == {R(t, 1) : t \in 0..MaxClock}

\* a call is recorded with the object as it was before the call
CallStart ==
    /\ call = Idle
    /\ timer.calls < MaxCalls
    /\ \E now \in Readings : \E res \in {start(timer.self, now)} :
        /\ call' = <<"start", [self |-> timer.self], res[1]>>
        /\ timer' = Recorded("start", res, now)

CallStop ==
    /\ call = Idle
    /\ timer.calls < MaxCalls
    /\ \E now \in Readings : \E res \in {stop(timer.self, now)} :
        /\ call' = <<"stop", [self |-> timer.self], res[1]>>
        /\ timer' = Recorded("stop", res, now)

CallReset ==
    /\ call = Idle
    /\ timer.calls < MaxCalls
    /\ \E res \in {reset(timer.self)} :
        /\ call' = <<"reset", [self |-> timer.self], res[1]>>
        /\ timer' = Recorded("reset", res, timer.clock)

CallRunning ==
    /\ call = Idle
    /\ timer.calls < MaxCalls
    /\ call' = <<"running", [self |-> timer.self], Ret(running(timer.self))>>
    /\ timer' = Recorded("running", <<Ret(running(timer.self)), timer.self>>, timer.clock)

CallEnter ==
    /\ call = Idle
    /\ timer.calls < MaxCalls
    /\ \E now \in Readings : \E res \in {__enter__(timer.self, now)} :
        /\ call' = <<"__enter__", [self |-> timer.self], res[1]>>
        /\ timer' = Recorded("__enter__", res, now)

CallExit ==
    /\ call = Idle
    /\ timer.calls < MaxCalls
    /\ \E now \in Readings : \E res \in {__exit__(timer.self, now)} :
        /\ call' = <<"__exit__", [self |-> timer.self], res[1]>>
        /\ timer' = Recorded("__exit__", res, now)

NextTimer ==
    \/ CallStart
    \/ CallStop
    \/ CallReset
    \/ CallRunning
    \/ CallEnter
    \/ CallExit
    \/ Return

SpecTimer == Init /\ [][NextTimer]_vars

TimerOps == StartOps \cup StopOps \cup {"reset", "running"}

(* C17: in every sequence of calls of start, stop and reset, and of entering
   and leaving a with block, start succeeds exactly when the timer is not
   running and otherwise raises RuntimeError('Already started'); stop
   succeeds exactly when it is running and otherwise raises
   RuntimeError('Not started'); and running is True exactly when the last
   of start and stop that succeeded is a start. *)
C17_StartStopRunning ==
    /\ Op \in StartOps =>
        /\ Returned(Out) <=> ~running(Args.self)
        /\ ~Returned(Out) => Out = Raise(<<"RuntimeError", "Already started">>)
    /\ Op \in StopOps =>
        /\ Returned(Out) <=> running(Args.self)
        /\ ~Returned(Out) => Out = Raise(<<"RuntimeError", "Not started">>)
    /\ running(timer.self) <=> timer.last = "start"
    /\ Op = "running" => Value = (timer.last = "start")

\* a stop that fails after a start and a stop that succeeded and a reset
C17_Witness ==
    /\ Op = "stop"
    /\ Out = Raise(<<"RuntimeError", "Not started">>)
    /\ timer.last = "stop"
    /\ timer.resets > 0
    /\ ~running(timer.self)

\* the sum of (stop reading - start reading) over a sequence of intervals
RECURSIVE IntervalSum(_)
IntervalSum(intervals) ==
    IF intervals = <<>> THEN Zero
    ELSE RAdd(IntervalSum(SubSeq(intervals, 1, Len(intervals) - 1)),
              RSub(intervals[Len(intervals)][2], intervals[Len(intervals)][1]))

(* C18: after any sequence of calls elapsed is the sum of (clock reading at
   stop - clock reading at start) over the intervals completed since the last
   reset, or since construction; a stop after a restart adds its interval to
   elapsed; and when the clock never went back, no call but reset makes
   elapsed smaller. *)
C18_ElapsedIsSum ==
    /\ timer.self.elapsed = IntervalSum(timer.completed)
    /\ (Op \in StopOps /\ Returned(Out)) =>
            timer.self.elapsed = RAdd(Args.self.elapsed, RSub(timer.clock, timer.begun))
    /\ (Op \in TimerOps \ {"reset"} /\ timer.monotone) =>
            RLe(Args.self.elapsed, timer.self.elapsed)

\* the second stop after a reset, each stop after an interval that took time:
\* the stop adds its interval to a counter that is not zero
C18_Witness ==
    /\ Op = "stop"
    /\ Returned(Out)
    /\ timer.monotone
    /\ timer.resets = 1
    /\ Len(timer.completed) = 2
    /\ \A k \in 1..2 : RLt(timer.completed[k][1], timer.completed[k][2])
    /\ RLt(Zero, Args.self.elapsed)
    /\ RLt(Args.self.elapsed, timer.self.elapsed)

(* C28: a start or stop that raises leaves elapsed and the pending start
   reading as they were; reset sets elapsed to 0 and leaves the pending start
   reading and so the running state as they were, and the stop that follows a
   reset of a running timer adds the whole interval since the start; reading
   running changes nothing. *)
C28_OnlyMeantChanges ==
    /\ (Op \in StartOps \cup StopOps /\ ~Returned(Out)) => timer.self = Args.self
    /\ Op = "reset" =>
        /\ timer.self.elapsed = Zero
        /\ timer.self._start = Args.self._start
        /\ running(timer.self) <=> running(Args.self)
        /\ running(Args.self) => timer.self._start = PyFloat(timer.begun)
    /\ (Op \in StopOps /\ Returned(Out)) =>
        /\ Args.self._start = PyFloat(timer.begun)
        /\ timer.self.elapsed = RAdd(Args.self.elapsed, RSub(timer.clock, timer.begun))
    /\ Op = "running" => timer.self = Args.self

\* the reset of a running timer with time on its counter: it is still
\* running, with the reading of its start, and the counter is zero
C28_Witness ==
    /\ Op = "reset"
    /\ Returned(Out)
    /\ running(Args.self)
    /\ RLt(Zero, Args.self.elapsed)
    /\ running(timer.self)
    /\ timer.self._start = PyFloat(timer.begun)
    /\ timer.self.elapsed = Zero

(***************************************************************************)
(* The empirical cdf and its inverse (bsnputils.py).  Here the arithmetic  *)
(* of floats matters: the result of every operation is rounded to the      *)
(* nearest float, ties to even.  The model's floats have MantissaBits      *)
(* significant bits where a Python float has 53.                           *)
(***************************************************************************)
MantissaBits == 5
MaxSample == 11   \* samples have 0..MaxSample observations

\* the float nearest to the number x
fl(x) ==
    IF x[2] = 0 \/ x[1] = 0 THEN x
    ELSE LET hi == 2 ^ MantissaBits
             lo == 2 ^ (MantissaBits - 1)
             RECURSIVE scale(_, _, _)
             \* <<n, d, e>> with |x| = (n/d) * 2^e and lo <= n/d < hi
             scale(n, d, e) ==
                 IF n >= hi * d THEN scale(n, 2 * d, e + 1)
                 ELSE IF n < lo * d THEN scale(2 * n, d, e - 1)
                 ELSE <<n, d, e>>
             s == scale(Abs(x[1]), x[2], 0)
             m == s[1] \div s[2]
             rest == 2 * (s[1] % s[2])
             rounded == IF rest > s[2] \/ (rest = s[2] /\ m % 2 = 1) THEN m + 1 ELSE m
             sign == IF x[1] < 0 THEN -1 ELSE 1
         IN IF s[3] >= 0 THEN R(sign * rounded * (2 ^ s[3]), 1)
            ELSE R(sign * rounded, 2 ^ (-s[3]))

\* floor of a finite number
floor(x) == x[1] \div x[2]

\* np.argsort(x) (quicksort, not stable): the index vectors that sort x, of
\* which the call returns one; S is the set of indices still to place
RECURSIVE argsort(_, _)
argsort(x, S) ==
    IF S = {} THEN {<<>>}
    ELSE UNION {{<<i>> \o rest : rest \in argsort(x, S \ {i})} :
                    i \in {i \in S : \A j \in S : RLe(x[i], x[j])}}

\* ecdf(x), np.argsort(x) returning order_x; position i_order + 1 of order_x
\* holds n_order + 1
ecdf(x, order_x) ==
    LET nx == Prod(shapeof(x))
        i_order(n_order) == (CHOOSE i \in 1..nx : order_x[i] = n_order) - 1
    IN IF Len(shapeof(x)) # 1
       THEN <<"abort", "ecdf: x should have 1 dimension">>
       ELSE Ret(NdArray(<<nx>>,
                        [n_order \in 1..nx |-> fl(RDiv(R(i_order(n_order) + 1, 1), R(nx, 1)))]))

\* inv_ecdf(v, q) for q a float or an array of rank 1; sorted_v is indexed
\* from 0 as in the code
inv_ecdf(v, q) ==
    LET nv == Prod(shapeof(v))
        order == CHOOSE p \in argsort(dataof(v), 1..nv) : TRUE
        np_sort == [k \in 1..nv |-> dataof(v)[order[k]]]
        \* sorted_v[0] is set while sorted_v[nv + 1] is still 0.0
        sorted_v == [k \in 0..(nv + 1) |->
                        IF k = 0 THEN fl(RSub(fl(RMul(R(2, 1), np_sort[1])),
                                              IF nv >= 2 THEN np_sort[2] ELSE Zero))
                        ELSE IF k = nv + 1 THEN np_sort[nv]
                        ELSE np_sort[k]]
        quantile(qi) ==
            LET q_floor == floor(fl(RMul(R(nv, 1), qi)))
                weight == fl(RSub(fl(RMul(R(nv, 1), qi)), R(q_floor, 1)))
                step == fl(RSub(sorted_v[q_floor + 1], sorted_v[q_floor]))
            IN IF q_floor + 1 > nv + 1 THEN Raise("IndexError")
               ELSE Ret(fl(RAdd(sorted_v[q_floor], fl(RMul(weight, step)))))
        \* a float q becomes np.array([q])
        values == IF q[1] = "float" THEN <<quantile(q[2])>>
                  ELSE [k \in 1..Len(dataof(q)) |-> quantile(dataof(q)[k])]
    IN IF Len(shapeof(v)) # 1 THEN bs_error_abort("v should have 1 dimension")
       ELSE IF nv = 0 THEN Raise("IndexError")
       ELSE IF q[1] \notin {"float", "ndarray"} THEN Raise("UnboundLocalError")
       ELSE IF \E k \in 1..Len(values) : ~Returned(values[k]) THEN Raise("IndexError")
       ELSE Ret(NdArray(<<Len(values)>>, [k \in 1..Len(values) |-> values[k][2]]))

\* samples: the numbers 1..n in increasing and in decreasing order for n in
\* 0..MaxSample, samples of up to three points 1 or 2 (with ties), and an
\* array of two dimensions
Samples ==
    UNION {{NdArray(<<n>>, [k \in 1..n |-> R(k, 1)]),
            NdArray(<<n>>, [k \in 1..n |-> R(n + 1 - k, 1)])} : n \in 0..MaxSample}
        \cup UNION {{NdArray(<<n>>, d) : d \in Tuples({One, R(2, 1)}, n)} : n \in 2..3}
        \cup {NdArray(<<1, 2>>, <<One, R(2, 1)>>)}

\* the quantiles asked of a sample of n points: the floats k/n and the floats
\* halfway between them, each alone; an array of some of them; the values of
\* ecdf on the sample; and an int
Quantiles(v) ==
    LET n == Prod(shapeof(v))
        grid == {fl(R(k, n)) : k \in 0..n} \cup {fl(R(2 * k + 1, 2 * n)) : k \in 0..(n - 1)}
    IN IF Len(shapeof(v)) # 1 \/ n = 0 THEN {PyFloat(Half), NdArray(<<1>>, <<One>>)}
       ELSE {PyFloat(q) : q \in grid}
            \cup {NdArray(<<3>>, <<fl(R(1, 2 * n)), fl(R(n - 1, n)), One>>), PyInt(1)}
            \cup {ecdf(v, order)[2] : order \in argsort(dataof(v), 1..n)}

CallEcdf ==
    /\ call = Idle
    /\ UNCHANGED timer
    /\ \E x \in Samples :
       \E order_x \in argsort(dataof(x), 1..Prod(shapeof(x))) :
        call' = <<"ecdf", [x |-> x], ecdf(x, order_x)>>

CallInvEcdf ==
    /\ call = Idle
    /\ UNCHANGED timer
    /\ \E v \in Samples : \E q \in Quantiles(v) :
        call' = <<"inv_ecdf", [v |-> v, q |-> q], inv_ecdf(v, q)>>

NextEcdf ==
    \/ CallEcdf
    \/ CallInvEcdf
    \/ Return

SpecEcdf == Init /\ [][NextEcdf]_vars

(* C19 as stated: for every 1-dimensional sample x of nobs points, ties
   included, ecdf(x)[i] is the number of points x[j] <= x[i] divided by nobs,
   so that the values lie between 1/nobs and 1; an input that is not
   1-dimensional ends the call. *)
C19_Original ==
    Op = "ecdf" =>
        LET x == Args.x
            nobs == Prod(shapeof(x))
        IN IF Len(shapeof(x)) # 1 THEN Aborted(Out)
           ELSE /\ Returned(Out)
                /\ shapeof(Value) = <<nobs>>
                /\ \A i \in 1..nobs :
                    /\ dataof(Value)[i] =
                         fl(R(Cardinality({j \in 1..nobs : RLe(dataof(x)[j], dataof(x)[i])}),
                              nobs))
                    /\ RLe(fl(R(1, nobs)), dataof(Value)[i])
                    /\ RLe(dataof(Value)[i], One)

\* the k-th smallest value of a sample of distinct values
Smallest(v, k) ==
    CHOOSE s \in {dataof(v)[i] : i \in 1..Len(dataof(v))} :
        Cardinality({j \in 1..Len(dataof(v)) : RLe(dataof(v)[j], s)}) = k

\* the values of the sample are distinct
Distinct(v) == \A i, j \in 1..Len(dataof(v)) : dataof(v)[i] = dataof(v)[j] => i = j

(* C20 as stated: for a 1-dimensional sample v of nobs distinct values,
   inv_ecdf(v, ecdf(v))[i] == v[i] for every i; for q = k/nobs with k in
   1..nobs the result is the k-th smallest value; for q between two grid
   points the result lies between the neighbouring order statistics; and no
   q in [0, 1] indexes outside the extended sorted array. *)
C20_Original ==
    (/\ Op = "inv_ecdf"
     /\ Len(shapeof(Args.v)) = 1
     /\ Prod(shapeof(Args.v)) > 0
     /\ Distinct(Args.v)
     /\ Args.q[1] \in {"float", "ndarray"}) =>
        LET v == Args.v
            nobs == Prod(shapeof(v))
            q == IF Args.q[1] = "float" THEN <<Args.q[2]>> ELSE dataof(Args.q)
        IN /\ Returned(Out)
           /\ shapeof(Value) = <<Len(q)>>
           /\ Args.q \in {ecdf(v, order)[2] : order \in argsort(dataof(v), 1..nobs)} =>
                dataof(Value) = dataof(v)
           /\ \A j \in 1..Len(q) :
                /\ \A k \in 1..nobs : q[j] = fl(R(k, nobs)) => dataof(Value)[j] = Smallest(v, k)
                /\ \A k \in 1..(nobs - 1) :
                    (RLt(R(k, nobs), q[j]) /\ RLt(q[j], R(k + 1, nobs))) =>
                        /\ RLe(Smallest(v, k), dataof(Value)[j])
                        /\ RLe(dataof(Value)[j], Smallest(v, k + 1))

(***************************************************************************)
(* Array utilities of bsnputils.py: padding, grids, and polynomials in two *)
(* variables.                                                              *)
(***************************************************************************)
MaxRows == 2      \* matrices have 0..MaxRows rows
MaxCols == 4      \* and 0..MaxCols columns
MaxPad == 3       \* the sizes m and n asked of nppad2_end_zeros are in 0..MaxPad

\* np.zeros(shape)
Zeros(shape) == NdArray(shape, [k \in 1..Prod(shape) |-> Zero])

\* the object the shape validators see of an array
Validated(arr) == ArrayOfShape(shapeof(arr))

nppad2_end_zeros_rows_first(mat, m, n) ==
    LET shape == test_matrix(Validated(mat), "None")
        nrows == shape[2][2][1]
        ncols == shape[2][2][2]
        max_rows == IF m > nrows THEN m ELSE nrows
        max_cols == IF n > ncols THEN n ELSE ncols
    IN IF ~Returned(shape) THEN shape
       ELSE IF nrows < max_rows
       THEN Ret(NdArray(<<m, ncols>>,
                        [k \in 1..(m * ncols) |->
                            IF ((k - 1) \div ncols) + 1 <= nrows THEN dataof(mat)[k]
                            ELSE Zero]))
       ELSE IF ncols < max_cols
       THEN Ret(NdArray(<<nrows, n>>,
                        [k \in 1..(nrows * n) |->
                            IF ((k - 1) % n) + 1 <= ncols
                            THEN At(mat, ((k - 1) \div n) + 1, ((k - 1) % n) + 1)
                            ELSE Zero]))
       ELSE Ret(mat)

\* pmat = np.zeros(...) and the assignment of mat to its top-left block
nppad2_end_zeros(mat, m, n) ==
    LET shape == test_matrix(Validated(mat), "None")
        nrows == shape[2][2][1]
        ncols == shape[2][2][2]
        max_rows == IF m > nrows THEN m ELSE nrows
        max_cols == IF n > ncols THEN n ELSE ncols
        \* pmat[:nrows, :ncols] = mat for pmat of zeros with nc columns
        assigned(nr, nc) ==
            NdArray(<<nr, nc>>,
                    [k \in 1..(nr * nc) |->
                        LET i == ((k - 1) \div nc) + 1
                            j == ((k - 1) % nc) + 1
                        IN IF i <= nrows /\ j <= ncols THEN At(mat, i, j)
                           ELSE dataof(Zeros(<<nr, nc>>))[k]])
    IN IF ~Returned(shape) THEN shape
       ELSE IF nrows < max_rows /\ ncols < max_cols THEN Ret(assigned(m, n))
       ELSE IF nrows < max_rows THEN Ret(assigned(m, ncols))
       ELSE IF ncols < max_cols THEN Ret(assigned(nrows, n))
       ELSE Ret(mat)

\* np.repeat(v, n), np.tile(v, n), np.column_stack(cols), arr[:, j - 1]
np_repeat(v, n) == [k \in 1..(Len(v) * n) |-> v[((k - 1) \div n) + 1]]

np_tile(v, n) == [k \in 1..(Len(v) * n) |-> v[((k - 1) % Len(v)) + 1]]

np_column_stack(cols) ==
    LET nc == Len(cols)
    IN NdArray(<<Len(cols[1]), nc>>,
               [k \in 1..(Len(cols[1]) * nc) |-> cols[((k - 1) % nc) + 1][((k - 1) \div nc) + 1]])

Column(arr, j) == [i \in 1..shapeof(arr)[1] |-> At(arr, i, j)]

bsgrid(v, w) ==
    LET m_ == test_vector(Validated(v), "None")
        n_ == test_vector(Validated(w), "None")
        m == Prod(shapeof(v))
        n == Prod(shapeof(w))
        v1 == np_repeat(dataof(v), n)
        v2 == np_tile(dataof(w), m)
    IN IF ~Returned(m_) THEN m_
       ELSE IF ~Returned(n_) THEN n_
       ELSE Ret(np_column_stack(<<v1, v2>>))

make_lexico_grid(arr) ==
    LET ndims_arr == test_vector_or_matrix(Validated(arr), "caller")
        nr == shapeof(arr)[1]
        nc == shapeof(arr)[2]
        nr2 == nr * nr
    IN IF ~Returned(ndims_arr) THEN ndims_arr
       ELSE IF ndims_arr[2] = PyInt(1) THEN Ret(arr)
       ELSE IF nc = 2
       THEN LET n0 == np_repeat(Column(arr, 1), nr)
                n1 == np_tile(Column(arr, 2), nr)
            IN Ret(np_column_stack(<<n0, n1>>))
       ELSE IF nc = 3
       THEN LET n0 == np_repeat(Column(arr, 1), nr2)
                n1 == np_repeat(np_tile(Column(arr, 2), nr), nr)
                n2 == np_tile(Column(arr, 3), nr2)
            IN Ret(np_column_stack(<<n0, n1, n2>>))
       ELSE bs_error_abort(<<"at this stage, the number of columns must be 3 or less, not", nc>>)

\* the array of a shape whose entries are 1, 2, 3, ... row by row
Counting(shape) == NdArray(shape, [k \in 1..Prod(shape) |-> R(k, 1)])

\* the matrices of 0..MaxRows rows and 0..MaxCols columns, the vectors of
\* 0..MaxRows elements, and an array of rank 3
SomeArrays ==
    {Counting(<<r, c>>) : r \in 0..MaxRows, c \in 0..MaxCols}
        \cup {Counting(<<r>>) : r \in 0..MaxRows}
        \cup {Counting(<<1, 1, 1>>)}

CallNppad2EndZeros ==
    /\ call = Idle
    /\ UNCHANGED timer
    /\ \E mat \in SomeArrays, m \in 0..MaxPad, n \in 0..MaxPad :
        call' = <<"nppad2_end_zeros", [mat |-> mat, m |-> m, n |-> n],
                  nppad2_end_zeros(mat, m, n)>>

CallBsgrid ==
    /\ call = Idle
    /\ UNCHANGED timer
    /\ \E v \in SomeArrays, w \in SomeArrays :
        call' = <<"bsgrid", [v |-> v, w |-> w], bsgrid(v, w)>>

CallMakeLexicoGrid ==
    /\ call = Idle
    /\ UNCHANGED timer
    /\ \E arr \in SomeArrays :
        call' = <<"make_lexico_grid", [arr |-> arr], make_lexico_grid(arr)>>

(***************************************************************************)
(* BivariatePolynomial.  A numpy Polynomial is modelled by its coef, the   *)
(* sequence of its coefficients from degree 0 up; numpy's constructor      *)
(* keeps the sequence as given, its sum and product strip trailing zeros.  *)
(***************************************************************************)
MaxDeg == 1       \* the left operand has degree 0..MaxDeg in each variable

RECURSIVE RPow(_, _)
RPow(x, k) == IF k = 0 THEN One ELSE RMul(RPow(x, k - 1), x)

\* the sum of f[lo] .. f[hi]
RECURSIVE RangeSum(_, _, _)
RangeSum(f, lo, hi) == IF hi < lo THEN Zero ELSE RAdd(RangeSum(f, lo, hi - 1), f[hi])

\* numpy.polynomial.polyutils.trimseq
RECURSIVE trimseq(_)
trimseq(seq) ==
    IF Len(seq) <= 1 \/ seq[Len(seq)] # Zero THEN seq
    ELSE trimseq(SubSeq(seq, 1, Len(seq) - 1))

\* np.convolve of two non-empty sequences
convolve(c1, c2) ==
    [k \in 1..(Len(c1) + Len(c2) - 1) |->
        LET lo == IF k + 1 - Len(c2) > 1 THEN k + 1 - Len(c2) ELSE 1
            hi == IF k < Len(c1) THEN k ELSE Len(c1)
        IN RangeSum([i \in lo..hi |-> RMul(c1[i], c2[k + 1 - i])], lo, hi)]

\* Polynomial.__mul__ and Polynomial.__add__ on coefficient sequences
polymul(c1, c2) == trimseq(convolve(trimseq(c1), trimseq(c2)))

polyadd(c1, c2) ==
    LET a == trimseq(c1)
        b == trimseq(c2)
        n == IF Len(a) > Len(b) THEN Len(a) ELSE Len(b)
    IN trimseq([k \in 1..n |-> RAdd(IF k <= Len(a) THEN a[k] ELSE Zero,
                                    IF k <= Len(b) THEN b[k] ELSE Zero)])

\* Polynomial.__call__
polyval(c, x) == RangeSum([k \in 1..Len(c) |-> RMul(c[k], RPow(x, k - 1))], 1, Len(c))

\* BivariatePolynomial.__init__
BivariatePolynomial(coeffs) ==
    <<"BivariatePolynomial",
      [deg1 |-> shapeof(coeffs)[1] - 1,
       deg2 |-> shapeof(coeffs)[2] - 1,
       coef |-> coeffs,
       listpol2 |-> [k \in 1..shapeof(coeffs)[1] |->
                        [j \in 1..shapeof(coeffs)[2] |-> At(coeffs, k, j)]]]>>

\* pm after the inner loop of __mul__ for row m (from 0)
RECURSIVE RowProduct(_, _, _, _, _)
RowProduct(lp2, blp2, m, minm, i) ==
    IF i < minm THEN <<Zero>>
    ELSE polyadd(RowProduct(lp2, blp2, m, minm, i - 1), polymul(lp2[i + 1], blp2[m - i + 1]))

\* coeffs_mul[m, :] += pm.coef broadcasts pm.coef to the row: it has to be of
\* the row's length or of length 1, else numpy raises ValueError
Broadcasts(pm, width) == Len(pm) = width \/ Len(pm) = 1

__mul__(self, bivpol) ==
    IF IsNumber(bivpol)
    THEN Ret(BivariatePolynomial(
             NdArray(shapeof(self[2].coef),
                     [k \in DOMAIN dataof(self[2].coef) |->
                         RMul(NumberOf(bivpol), dataof(self[2].coef)[k])])))
    ELSE LET deg1 == self[2].deg1
             degbp1 == bivpol[2].deg1
             degmul1 == deg1 + degbp1
             degmul2 == self[2].deg2 + bivpol[2].deg2
             pm == [m \in 0..degmul1 |->
                      LET minm == IF m - degbp1 > 0 THEN m - degbp1 ELSE 0
                          maxm == IF m < deg1 THEN m ELSE deg1
                      IN RowProduct(self[2].listpol2, bivpol[2].listpol2, m, minm, maxm)]
             coeffs_mul ==
                 NdArray(<<degmul1 + 1, degmul2 + 1>>,
                         [k \in 1..((degmul1 + 1) * (degmul2 + 1)) |->
                             LET row == pm[(k - 1) \div (degmul2 + 1)]
                                 j == ((k - 1) % (degmul2 + 1)) + 1
                             IN RAdd(Zero, IF Len(row) = 1 THEN row[1] ELSE row[j])])
         IN IF \E m \in 0..degmul1 : ~Broadcasts(pm[m], degmul2 + 1)
            THEN Raise("ValueError")
            ELSE Ret(BivariatePolynomial(coeffs_mul))

\* val after the loop of __call__ over the first k polynomials of listpol2
RECURSIVE Evaluated(_, _, _, _)
Evaluated(listpol2, k, x1, x2) ==
    IF k = 0 THEN Zero
    ELSE RAdd(Evaluated(listpol2, k - 1, x1, x2), RMul(polyval(listpol2[k], x2), RPow(x1, k - 1)))

__call__(self, x1, x2) == Ret(PyFloat(Evaluated(self[2].listpol2, Len(self[2].listpol2), x1, x2)))

\* the coefficient matrices with entries 0 and 1 of the degrees 0..MaxDeg,
\* and the right operands: numbers, and polynomials with and without zero
\* entries in the last column and zero rows
Coefficients ==
    UNION {{NdArray(<<r, c>>, [k \in 1..(r * c) |-> R(d[k], 1)]) : d \in [1..(r * c) -> {0, 1}]} :
           r \in 1..(MaxDeg + 1), c \in 1..(MaxDeg + 1)}

Multipliers ==
    {PyFloat(R(2, 1)), PyInt(-1), PyFloat(Half)}
        \cup {BivariatePolynomial(NdArray(<<1, 1>>, <<R(3, 1)>>)),
              BivariatePolynomial(NdArray(<<1, 2>>, <<One, One>>)),
              BivariatePolynomial(NdArray(<<1, 2>>, <<R(2, 1), Zero>>)),
              BivariatePolynomial(NdArray(<<2, 1>>, <<One, R(-1, 1)>>)),
              BivariatePolynomial(NdArray(<<2, 2>>, <<One, R(-1, 1), R(2, 1), One>>)),
              BivariatePolynomial(NdArray(<<2, 2>>, <<Zero, Zero, One, R(-1, 1)>>)),
              BivariatePolynomial(NdArray(<<2, 3>>, <<One, Zero, R(-1, 1), Zero, R(2, 1), One>>))}

EvaluationPoints == {R(-1, 1), Zero, Half, R(2, 1)}

CallMul ==
    /\ call = Idle
    /\ UNCHANGED timer
    /\ \E coeffs \in Coefficients, bivpol \in Multipliers :
        call' = <<"__mul__", [self |-> BivariatePolynomial(coeffs), bivpol |-> bivpol],
                  __mul__(BivariatePolynomial(coeffs), bivpol)>>

CallCall ==
    /\ call = Idle
    /\ UNCHANGED timer
    /\ \E coeffs \in Coefficients, x1 \in EvaluationPoints, x2 \in EvaluationPoints :
        call' = <<"__call__", [self |-> BivariatePolynomial(coeffs), x1 |-> x1, x2 |-> x2],
                  __call__(BivariatePolynomial(coeffs), x1, x2)>>

NextArrays ==
    \/ CallNppad2EndZeros
    \/ CallBsgrid
    \/ CallMakeLexicoGrid
    \/ CallMul
    \/ CallCall
    \/ Return

SpecArrays == Init /\ [][NextArrays]_vars

(* C21: nppad2_end_zeros(mat, m, n) on an (nrows, ncols) matrix returns a
   matrix of shape (max(m, nrows), max(n, ncols)) whose top-left
   (nrows, ncols) block is mat and whose other entries are zero, whichever of
   m <= nrows, m > nrows, n <= ncols, n > ncols hold; when no dimension needs
   padding the result is mat. *)
C21_PaddedWithZeros ==
    (Op = "nppad2_end_zeros" /\ Len(shapeof(Args.mat)) = 2) =>
        LET mat == Args.mat
            nrows == shapeof(mat)[1]
            ncols == shapeof(mat)[2]
            rows == IF Args.m <= nrows THEN nrows ELSE Args.m
            cols == IF Args.n <= ncols THEN ncols ELSE Args.n
        IN /\ Returned(Out)
           /\ shapeof(Value) = <<rows, cols>>
           /\ Len(dataof(Value)) = rows * cols
           /\ \A i \in 1..rows, j \in 1..cols :
                dataof(Value)[(i - 1) * cols + j] =
                    IF i <= nrows /\ j <= ncols THEN dataof(mat)[(i - 1) * ncols + j]
                    ELSE Zero
           /\ (Args.m <= nrows /\ Args.n <= ncols) => Value = mat

\* a 2 x 2 matrix padded in both dimensions
C21_Witness ==
    /\ Op = "nppad2_end_zeros"
    /\ shapeof(Args.mat) = <<2, 2>>
    /\ Args.m = 3
    /\ Args.n = 3
    /\ Returned(Out)
    /\ dataof(Value) = <<One, R(2, 1), Zero, R(3, 1), R(4, 1), Zero, Zero, Zero, Zero>>

RECURSIVE IntPow(_, _)
IntPow(b, e) == IF e = 0 THEN 1 ELSE b * IntPow(b, e - 1)

\* row r (from 0) of the grid for the index tuple in lexicographic order:
\* the k-th index is the k-th digit of r in base nr
LexIndex(r, k, nr, nc) == (r \div IntPow(nr, nc - k)) % nr

IsLexicoGrid(grid, arr) ==
    LET nr == shapeof(arr)[1]
        nc == shapeof(arr)[2]
    IN /\ shapeof(grid) = <<IntPow(nr, nc), nc>>
       /\ Len(dataof(grid)) = IntPow(nr, nc) * nc
       /\ \A r \in 0..(IntPow(nr, nc) - 1), k \in 1..nc :
            dataof(grid)[r * nc + k] = At(arr, LexIndex(r, k, nr, nc) + 1, k)

(* C22 as stated: make_lexico_grid returns its argument for a vector; for an
   (nr, nc) matrix with nc equal to 1, 2 or 3 it returns the (nr^nc, nc)
   matrix whose rows list, in lexicographic order of the index tuple, every
   combination taking the k-th coordinate from column k, which for nc = 2 is
   bsgrid(arr[:, 0], arr[:, 1]); with more than 3 columns it aborts. *)
C22_Original ==
    Op = "make_lexico_grid" =>
        LET arr == Args.arr
            rank == Len(shapeof(arr))
            nr == shapeof(arr)[1]
            nc == shapeof(arr)[2]
        IN /\ rank = 1 => Returned(Out) /\ Value = arr
           /\ (rank = 2 /\ nc \in 1..3) => Returned(Out) /\ IsLexicoGrid(Value, arr)
           /\ (rank = 2 /\ nc = 2) =>
                Out = bsgrid(NdArray(<<nr>>, Column(arr, 1)), NdArray(<<nr>>, Column(arr, 2)))
           /\ (rank = 2 /\ nc > 3) => Aborted(Out)

\* the coefficient of x1^m x2^k (m, k from 0) in the product of the
\* polynomials of the coefficient matrices P and Q
ProductEntry(P, Q, m, k) ==
    LET pairs == {<<i, a>> \in (0..m) \X (0..k) :
                     /\ i < shapeof(P)[1] /\ m - i < shapeof(Q)[1]
                     /\ a < shapeof(P)[2] /\ k - a < shapeof(Q)[2]}
        terms == [n \in 0..((m + 1) * (k + 1) - 1) |->
                     LET i == n \div (k + 1)
                         a == n % (k + 1)
                     IN IF <<i, a>> \in pairs
                        THEN RMul(At(P, i + 1, a + 1), At(Q, m - i + 1, k - a + 1))
                        ELSE Zero]
    IN RangeSum(terms, 0, (m + 1) * (k + 1) - 1)

(* C24 as stated: BivariatePolynomial multiplication is polynomial
   multiplication: (p * q).coef has shape (d1 + e1 + 1, d2 + e2 + 1) and its
   entry (m, k) is the sum of P[i, a] * Q[j, b] over i + j = m, a + b = k,
   also when the matrices have zero entries in the last column or whole zero
   rows, so that (p * q)(x1, x2) = p(x1, x2) * q(x1, x2); multiplication by a
   number scales every coefficient. *)
C24_Original ==
    Op = "__mul__" =>
        LET P == Args.self[2].coef
        IN /\ Returned(Out)
           /\ IsNumber(Args.bivpol) =>
                /\ shapeof(Value[2].coef) = shapeof(P)
                /\ \A k \in DOMAIN dataof(P) :
                     dataof(Value[2].coef)[k] = RMul(NumberOf(Args.bivpol), dataof(P)[k])
           /\ ~IsNumber(Args.bivpol) =>
                LET Q == Args.bivpol[2].coef
                    rows == shapeof(P)[1] + shapeof(Q)[1] - 1
                    cols == shapeof(P)[2] + shapeof(Q)[2] - 1
                IN /\ shapeof(Value[2].coef) = <<rows, cols>>
                   /\ \A m \in 0..(rows - 1), k \in 0..(cols - 1) :
                        At(Value[2].coef, m + 1, k + 1) = ProductEntry(P, Q, m, k)
                   /\ \A x1 \in EvaluationPoints, x2 \in EvaluationPoints :
                        __call__(Value, x1, x2)[2][2] =
                            RMul(__call__(Args.self, x1, x2)[2][2],
                                 __call__(Args.bivpol, x1, x2)[2][2])

(***************************************************************************)
(* bs_opt.py.  A vector is the sequence of its elements.  The function to  *)
(* minimize is a separable quadratic, given by other_params = [c, a]: its  *)
(* gradient at y has the elements c[i] * (y[i] - a[i]).  The arithmetic is *)
(* that of the model's floats: the result of every operation, the square   *)
(* root included, is rounded to MantissaBits significant bits.             *)
(* acc_grad_descent runs one iteration of its loop per step; while it runs *)
(* the call's outcome is <<"running", its local variables>>.               *)
(***************************************************************************)
MaxIter == 2      \* maxiter is in 0..MaxIter
SqrtBits == 6     \* sqrt is computed to SqrtBits more bits and then rounded

\* an operation evaluates its operands once and rounds its result
FAdd(a, b) == CHOOSE r \in {fl(RAdd(x, y)) : x \in {a}, y \in {b}} : TRUE

FSub(a, b) == CHOOSE r \in {fl(RSub(x, y)) : x \in {a}, y \in {b}} : TRUE

FMul(a, b) == CHOOSE r \in {fl(RMul(x, y)) : x \in {a}, y \in {b}} : TRUE

FDiv(a, b) == CHOOSE r \in {fl(RDiv(x, y)) : x \in {a}, y \in {b}} : TRUE

RAbs(a) == CHOOSE r \in {<<Abs(x[1]), x[2]>> : x \in {a}} : TRUE

\* the largest k in lo..(hi - 1) with k * k <= v
RECURSIVE isqrt(_, _, _)
isqrt(v, lo, hi) ==
    IF hi - lo <= 1 THEN lo
    ELSE CHOOSE r \in {IF mid * mid <= v THEN isqrt(v, mid, hi) ELSE isqrt(v, lo, mid) :
                        mid \in {(lo + hi) \div 2}} : TRUE

\* math.sqrt of a number >= 0: sqrt(n / d) = sqrt(n * d) / d
sqrt(q) ==
    CHOOSE r \in {IF x[2] = 0 THEN x
                  ELSE fl(R(isqrt(x[1] * x[2] * (2 ^ (2 * SqrtBits)), 0, 2 ^ 15),
                            x[2] * (2 ^ SqrtBits))) : x \in {q}} : TRUE

VecSub(u, v) == CHOOSE r \in {[i \in DOMAIN x |-> FSub(x[i], y[i])] : x \in {u}, y \in {v}} : TRUE

VecAdd(u, v) == CHOOSE r \in {[i \in DOMAIN x |-> FAdd(x[i], y[i])] : x \in {u}, y \in {v}} : TRUE

VecScale(s, v) == CHOOSE r \in {[i \in DOMAIN y |-> FMul(x, y[i])] : x \in {s}, y \in {v}} : TRUE

\* the sum of the first k products u[i] * v[i]
RECURSIVE DotTo(_, _, _)
DotTo(u, v, k) == IF k = 0 THEN Zero ELSE FAdd(DotTo(u, v, k - 1), FMul(u[k], v[k]))

\* np.dot of two vectors
np_dot(u, v) == CHOOSE r \in {DotTo(x, y, Len(x)) : x \in {u}, y \in {v}} : TRUE

\* scipy.linalg.norm of a vector
norm(v) == sqrt(np_dot(v, v))

npmaxabs(arr) == CHOOSE r \in {npmax([i \in DOMAIN x |-> RAbs(x[i])]) : x \in {arr}} : TRUE

\* the gradient of the caller's function at y
grad_f(y, other_params) ==
    CHOOSE r \in {[i \in DOMAIN x |-> FMul(other_params.c[i], FSub(x[i], other_params.a[i]))] :
                   x \in {y}} : TRUE

barzilai_borwein_alpha(x, args) ==
    LET g == grad_f(x, args)
        alpha0 == FDiv(One, norm(g))
        x_hat == VecSub(x, VecScale(alpha0, g))
        g_hat == grad_f(x_hat, args)
        norm_dg == norm(VecSub(g, g_hat))
        norm_dg2 == FMul(norm_dg, norm_dg)
        alpha == FDiv(RAbs(np_dot(VecSub(x, x_hat), VecSub(g, g_hat))), norm_dg2)
    IN <<alpha, g>>

\* the local variables of acc_grad_descent when it reaches its loop; grad_err
\* and xi are not bound yet; restarted tells whether the last pass restarted
acc_grad_descent_begin(a) ==
    LET tg == barzilai_borwein_alpha(a.x_init, a.other_params)
    IN [x |-> a.x_init, y |-> a.x_init, t |-> tg[1], g |-> tg[2],
        iter |-> 0, theta |-> One, grad_err |-> PyNone, xi |-> PyNone, restarted |-> FALSE]

\* the loop's test, and the test of the break
acc_grad_descent_loops(v, a) ==
    v.iter < a.maxiter /\ ~RLt(npmaxabs(v.g), a.tol)

\* one pass through the body of the loop, without a break
acc_grad_descent_body(v, a) ==
    LET grad_err == npmaxabs(v.g)
        xi == v.x
        yi == v.y
        x1 == VecSub(v.y, VecScale(v.t, v.g))
        theta1 == FDiv(R(2, 1),
                       FAdd(One, sqrt(FAdd(One, FDiv(FDiv(R(4, 1), v.theta), v.theta)))))
        restart == RLt(Zero, np_dot(VecSub(v.y, x1), VecSub(x1, xi)))
        x == IF restart THEN xi ELSE x1
        y == IF restart THEN xi
             ELSE VecAdd(x1, VecScale(FSub(One, theta1), VecSub(x1, xi)))
        theta == IF restart THEN One ELSE theta1
        gi == v.g
        g == grad_f(y, a.other_params)
        ndy == norm(VecSub(y, yi))
        t_hat == FDiv(FMul(FMul(Half, ndy), ndy),
                      RAbs(np_dot(VecSub(y, yi), VecSub(gi, g))))
        t == RMin(FMul(a.alpha, v.t), RMax(FMul(a.beta, v.t), t_hat))
    IN [x |-> x, y |-> y, t |-> t, g |-> g, iter |-> v.iter + 1, theta |-> theta,
        grad_err |-> grad_err, xi |-> xi, restarted |-> restart]

\* the local variables when the loop is left: by its break, which has bound
\* grad_err, if iter < maxiter
acc_grad_descent_break(v, a) ==
    IF v.iter < a.maxiter THEN [v EXCEPT !.grad_err = npmaxabs(v.g)] ELSE v

\* the statements after the loop; reading grad_err before it was bound raises
\* UnboundLocalError
acc_grad_descent_end(v, a) ==
    LET grad_err == v.grad_err
        x_conv == v.y
        ret_code == IF RLt(grad_err, a.tol) THEN 0 ELSE 1
    IN IF grad_err = PyNone THEN Raise("UnboundLocalError")
       ELSE Ret(PyTuple(<<x_conv, PyInt(ret_code)>>))

\* alpha = 1.01 and beta = 0.5 as the defaults have them, as floats
DefaultAlpha == fl(R(101, 100))

DefaultBeta == Half

\* the problems: c, a and the initial guess
Problems ==
    {[c |-> <<One>>, a |-> <<Zero>>], [c |-> <<R(2, 1)>>, a |-> <<One>>],
     [c |-> <<One, R(4, 1)>>, a |-> <<Zero, One>>],
     [c |-> <<R(3, 1), One>>, a |-> <<One, One>>]}

Guesses(p) ==
    IF Len(p.c) = 1 THEN {<<One>>, <<R(3, 1)>>, <<R(-2, 1)>>, <<Zero>>}
    ELSE {<<One, Zero>>, <<R(2, 1), R(-1, 1)>>, <<Zero, One>>, <<One, One>>}

Tolerances == {R(1, 100), Half, R(2, 1)}

CallAccGradDescent ==
    /\ call = Idle
    /\ UNCHANGED timer
    /\ \E p \in Problems, tol \in Tolerances, maxiter \in 0..MaxIter :
        \E x_init \in Guesses(p) :
            LET a == [x_init |-> x_init, other_params |-> p, tol |-> tol,
                      alpha |-> DefaultAlpha, beta |-> DefaultBeta, maxiter |-> maxiter]
            IN call' = <<"acc_grad_descent", a, <<"running", acc_grad_descent_begin(a)>>>>

AccGradDescentIterate ==
    /\ Op = "acc_grad_descent"
    /\ Status = "running"
    /\ acc_grad_descent_loops(Value, Args)
    /\ UNCHANGED timer
    /\ call' = <<Op, Args, <<"running", acc_grad_descent_body(Value, Args)>>>>

AccGradDescentEnd ==
    /\ Op = "acc_grad_descent"
    /\ Status = "running"
    /\ ~acc_grad_descent_loops(Value, Args)
    /\ UNCHANGED timer
    /\ call' = <<Op, Args, acc_grad_descent_end(acc_grad_descent_break(Value, Args), Args),
                 acc_grad_descent_break(Value, Args)>>

(***************************************************************************)
(* _fix_some and minimize_some_fixed.  scipy.optimize.minimize is any      *)
(* function that returns a vector of the length of its initial guess.      *)
(***************************************************************************)
MaxVars == 3      \* the function to minimize has 1..MaxVars variables

\* list.insert(i, v) for i >= 0: beyond the end of the list it appends
insert(lst, i, v) ==
    LET p == IF i < Len(lst) THEN i ELSE Len(lst)
    IN SubSeq(lst, 1, p) \o <<v>> \o SubSeq(lst, p + 1, Len(lst))

\* t_full after the first k passes of
\* `for i, i_coef in enumerate(fixed_vars): t_full.insert(i_coef, fixed_vals[i])`
RECURSIVE refill(_, _, _, _)
refill(t, fixed_vars, fixed_vals, k) ==
    IF k = 0 THEN t
    ELSE insert(refill(t, fixed_vars, fixed_vals, k - 1), fixed_vars[k], fixed_vals[k])

\* the caller's function hands back its argument, and its gradient at x has
\* the elements 2 * x[i]
obj(arr_full) == arr_full

grad_obj(arr_full) == [i \in DOMAIN arr_full |-> RMul(R(2, 1), arr_full[i])]

\* np.delete(arr, indices)
RECURSIVE np_delete(_, _)
np_delete(arr, indices) ==
    IF arr = <<>> THEN <<>>
    ELSE LET init == np_delete(SubSeq(arr, 1, Len(arr) - 1), indices)
         IN IF \E i \in DOMAIN indices : indices[i] = Len(arr) - 1 THEN init
            ELSE Append(init, arr[Len(arr)])

\* the two functions _fix_some returns; fixed_vals[i] beyond the end of
\* fixed_vals raises IndexError
fixed_obj(t, fixed_vars, fixed_vals) ==
    IF Len(fixed_vals) < Len(fixed_vars) THEN Raise("IndexError")
    ELSE Ret(obj(refill(t, fixed_vars, fixed_vals, Len(fixed_vars))))

fixed_grad_obj(t, fixed_vars, fixed_vals) ==
    IF Len(fixed_vals) < Len(fixed_vars) THEN Raise("IndexError")
    ELSE Ret(np_delete(grad_obj(refill(t, fixed_vars, fixed_vals, Len(fixed_vars))), fixed_vars))

\* x_init[not_fixed]
NotFixed(x_init, fixed_vars) == np_delete(x_init, fixed_vars)

\* minimize_some_fixed, of which resopt_x is the x scipy's minimize returns;
\* the result is resopt with its x and jac
minimize_some_fixed(x_init, fixed_vars, fixed_vals, bounds, resopt_x) ==
    IF fixed_vars = PyNone THEN Ret([x |-> resopt_x, jac |-> grad_obj(resopt_x)])
    ELSE IF Len(fixed_vars[2]) # Len(fixed_vals)
    THEN bs_error_abort(<<"fixed_vars has", Len(fixed_vars[2]), "indices but fixed_vals has",
                          Len(fixed_vals), "elements.">>)
    ELSE IF bounds = PyNone THEN Raise("TypeError")
    ELSE LET t_full == refill(resopt_x, fixed_vars[2], fixed_vals, Len(fixed_vars[2]))
         IN Ret([x |-> t_full, jac |-> grad_obj(t_full)])

\* the lists of distinct indices of n variables, in every order
IndexLists(n) ==
    {l \in UNION {[1..k -> 0..(n - 1)] : k \in 0..n} :
        \A i \in DOMAIN l, j \in DOMAIN l : i # j => l[i] # l[j]}

\* vectors of k elements that differ from each other: base + 1, base + 2, ...
Marked(base, k) == [i \in 1..k |-> R(base + i, 1)]

CallFixedObj ==
    /\ call = Idle
    /\ UNCHANGED timer
    /\ \E n \in 1..MaxVars :
        \E fixed_vars \in IndexLists(n), k \in 0..n :
            call' = <<"fixed_obj",
                      [t |-> Marked(10, n - Len(fixed_vars)), fixed_vars |-> fixed_vars,
                       fixed_vals |-> Marked(20, k)],
                      fixed_obj(Marked(10, n - Len(fixed_vars)), fixed_vars, Marked(20, k))>>

CallFixedGradObj ==
    /\ call = Idle
    /\ UNCHANGED timer
    /\ \E n \in 1..MaxVars :
        \E fixed_vars \in IndexLists(n), k \in 0..n :
            call' = <<"fixed_grad_obj",
                      [t |-> Marked(10, n - Len(fixed_vars)), fixed_vars |-> fixed_vars,
                       fixed_vals |-> Marked(20, k)],
                      fixed_grad_obj(Marked(10, n - Len(fixed_vars)), fixed_vars, Marked(20, k))>>

CallMinimizeSomeFixed ==
    /\ call = Idle
    /\ UNCHANGED timer
    /\ \E n \in 1..MaxVars, bounds \in {PyNone, PyList(<<>>)} :
        \E fixed_vars \in {PyNone} \cup {PyList(l) : l \in IndexLists(n)}, k \in 0..n :
            \E resopt_x \in {Marked(b, IF fixed_vars = PyNone THEN n ELSE n - Len(fixed_vars[2])) :
                             b \in {10, 30}} :
                call' = <<"minimize_some_fixed",
                          [x_init |-> Marked(0, n), fixed_vars |-> fixed_vars,
                           fixed_vals |-> Marked(20, k), bounds |-> bounds],
                          minimize_some_fixed(Marked(0, n), fixed_vars, Marked(20, k), bounds,
                                              resopt_x),
                          [t_init |-> IF fixed_vars = PyNone THEN Marked(0, n)
                                      ELSE NotFixed(Marked(0, n), fixed_vars[2]),
                           resopt_x |-> resopt_x]>>

(***************************************************************************)
(* armijo_alpha, one trial step of its loop per step.  The function f is   *)
(* the quadratic with the value sum of c[i] * (x[i] - a[i])^2 at x, for    *)
(* args = [c, a].  Here the numbers are exact; an operation evaluates its  *)
(* operands once.                                                          *)
(***************************************************************************)
MaxTrials == 3    \* max_iter is in 0..MaxTrials

XAdd(a, b) == CHOOSE r \in {RAdd(x, y) : x \in {a}, y \in {b}} : TRUE

XSub(a, b) == CHOOSE r \in {RSub(x, y) : x \in {a}, y \in {b}} : TRUE

XMul(a, b) == CHOOSE r \in {RMul(x, y) : x \in {a}, y \in {b}} : TRUE

\* the sum of the first k terms c[i] * (x[i] - a[i])^2
RECURSIVE f_terms(_, _, _)
f_terms(x, args, k) ==
    IF k = 0 THEN Zero
    ELSE XAdd(f_terms(x, args, k - 1),
              XMul(args.c[k], XMul(XSub(x[k], args.a[k]), XSub(x[k], args.a[k]))))

f(x, args) == CHOOSE r \in {f_terms(y, args, Len(y)) : y \in {x}} : TRUE

\* x + alpha * d
Stepped(x, alpha, d) ==
    CHOOSE r \in {[i \in DOMAIN y |-> XAdd(y[i], XMul(s, d[i]))] : y \in {x}, s \in {alpha}} : TRUE

\* the local variables when the loop begins: trials counts the passes made,
\* evaluated lists the points x1 at which f was called
armijo_alpha_begin(a) ==
    [f0 |-> f(a.x, a.args), alpha |-> a.alpha_init, trials |-> 0, evaluated |-> <<>>]

\* one pass of the loop: the outcome, and the local variables after it
armijo_alpha_trial_late(v, a) ==
    LET x1 == Stepped(a.x, v.alpha, a.d)
        alpha == XMul(v.alpha, a.beta)
        seen == [v EXCEPT !.evaluated = Append(@, x1)]
    IN IF RLt(f(x1, a.args), XAdd(v.f0, a.tol)) THEN <<Ret(PyFloat(alpha)), seen>>
       ELSE <<<<"running", [seen EXCEPT !.alpha = alpha, !.trials = @ + 1]>>, seen>>

armijo_alpha_trial(v, a) ==
    LET x1 == Stepped(a.x, v.alpha, a.d)
        seen == [v EXCEPT !.evaluated = Append(@, x1)]
    IN IF RLt(f(x1, a.args), XAdd(v.f0, a.tol)) THEN <<Ret(PyFloat(v.alpha)), seen>>
       ELSE <<<<"running", [seen EXCEPT !.alpha = XMul(v.alpha, a.beta), !.trials = @ + 1]>>, seen>>

\* the else clause of the loop
armijo_alpha_exhausted == bs_error_abort("Too many iterations")

\* directions: multiples of a - x
Directions(p, x) ==
    {[i \in DOMAIN x |-> XMul(R(s, 1), XSub(p.a[i], x[i]))] : s \in {-1, 1, 2, 8}}

\* alpha_init and beta
StepSizes == {<<One, Half>>, <<R(4, 1), Half>>, <<One, R(1, 4)>>}

CallArmijoAlpha ==
    /\ call = Idle
    /\ UNCHANGED timer
    /\ \E p \in {q \in Problems : q.a[1] = Zero}, sizes \in StepSizes,
          max_iter \in 0..MaxTrials, tol \in {Zero, One} :
        \E x \in Guesses(p) :
            \E d \in Directions(p, x) :
                LET a == [x |-> x, d |-> d, args |-> p, alpha_init |-> sizes[1],
                          beta |-> sizes[2], max_iter |-> max_iter, tol |-> tol]
                IN call' = <<"armijo_alpha", a, <<"running", armijo_alpha_begin(a)>>,
                             armijo_alpha_begin(a)>>

ArmijoAlphaTrial ==
    /\ Op = "armijo_alpha"
    /\ Status = "running"
    /\ Value.trials < Args.max_iter
    /\ UNCHANGED timer
    /\ call' = <<Op, Args, armijo_alpha_trial(Value, Args)[1], armijo_alpha_trial(Value, Args)[2]>>

ArmijoAlphaExhausted ==
    /\ Op = "armijo_alpha"
    /\ Status = "running"
    /\ Value.trials >= Args.max_iter
    /\ UNCHANGED timer
    /\ call' = <<Op, Args, armijo_alpha_exhausted, Value>>

NextArmijo ==
    \/ CallArmijoAlpha
    \/ ArmijoAlphaTrial
    \/ ArmijoAlphaExhausted
    \/ Return

SpecArmijo == Init /\ [][NextArmijo]_vars

\* a call of armijo_alpha that began runs on: the loop makes its next pass,
\* and when the passes are used up the else clause runs
FairSpecArmijo == SpecArmijo /\ WF_vars(ArmijoAlphaTrial) /\ WF_vars(ArmijoAlphaExhausted)

NextOpt ==
    \/ CallAccGradDescent
    \/ AccGradDescentIterate
    \/ AccGradDescentEnd
    \/ CallFixedObj
    \/ CallFixedGradObj
    \/ CallMinimizeSomeFixed
    \/ Return

SpecOpt == Init /\ [][NextOpt]_vars

(* C23 as stated: acc_grad_descent returns the candidate solution and a status
   that is 1 if the iteration converged, that is if the largest absolute
   element of the gradient it tested last was below tol, and 0 if not. *)
C23_Original ==
    (Op = "acc_grad_descent" /\ Returned(Out)) =>
        /\ Value[2][1] = Log.y
        /\ Value[2][2] = PyInt(IF RLt(Log.grad_err, Args.tol) THEN 1 ELSE 0)

\* is the variable of index j (from 0) fixed, the place of j in fixed_vars,
\* and the number of variables up to j that are not fixed
IsFixed(fixed_vars, j) == \E i \in DOMAIN fixed_vars : fixed_vars[i] = j

PlaceOf(fixed_vars, j) == CHOOSE i \in DOMAIN fixed_vars : fixed_vars[i] = j

FreeUpTo(fixed_vars, j) == Cardinality({m \in 0..j : ~IsFixed(fixed_vars, m)})

\* the full vector of n variables that has fixed_vals[i] at fixed_vars[i] and
\* the elements of t, in their order, at the other indices
ExpectedFull(n, fixed_vars, fixed_vals, t) ==
    [j \in 1..n |->
        IF IsFixed(fixed_vars, j - 1) THEN fixed_vals[PlaceOf(fixed_vars, j - 1)]
        ELSE t[FreeUpTo(fixed_vars, j - 1)]]

\* vec without its elements at the indices fixed_vars
Remaining(vec, fixed_vars) ==
    [r \in 1..(Len(vec) - Len(fixed_vars)) |->
        vec[CHOOSE j \in 1..Len(vec) :
                ~IsFixed(fixed_vars, j - 1) /\ FreeUpTo(fixed_vars, j - 1) = r]]

(* C25 as stated: for every list fixed_vars of distinct indices, in any order,
   with as many fixed_vals, and every reduced vector t, the full vector that
   the functions of _fix_some rebuild has fixed_vals[i] at index fixed_vars[i]
   and the elements of t in their order at the other indices; the reduced
   gradient is the gradient at that vector without its fixed_vars elements;
   the x that minimize_some_fixed reports has the fixed values at the fixed
   indices; and minimize_some_fixed aborts when fixed_vars and fixed_vals
   differ in length. *)
C25_Original ==
    /\ (Op \in {"fixed_obj", "fixed_grad_obj"} /\ Len(Args.fixed_vars) = Len(Args.fixed_vals)) =>
         LET full == ExpectedFull(Len(Args.t) + Len(Args.fixed_vars), Args.fixed_vars,
                                  Args.fixed_vals, Args.t)
         IN /\ Returned(Out)
            /\ Op = "fixed_obj" => Value = full
            /\ Op = "fixed_grad_obj" => Value = Remaining(grad_obj(full), Args.fixed_vars)
    /\ (Op = "minimize_some_fixed" /\ Args.fixed_vars # PyNone) =>
         /\ Len(Args.fixed_vars[2]) # Len(Args.fixed_vals) => Aborted(Out)
         /\ Returned(Out) =>
              \A i \in DOMAIN Args.fixed_vars[2] :
                  Value.x[Args.fixed_vars[2][i] + 1] = Args.fixed_vals[i]

\* alpha_init * beta^k, alpha_init multiplied k times by beta, and whether
\* the trial point of that step is accepted
RECURSIVE AlphaAt(_)
AlphaAt(k) == IF k = 0 THEN Args.alpha_init ELSE XMul(AlphaAt(k - 1), Args.beta)

Accepted(k) ==
    RLt(f(Stepped(Args.x, AlphaAt(k), Args.d), Args.args),
        XAdd(f(Args.x, Args.args), Args.tol))

TrialPoints(k) == [j \in 1..k |-> Stepped(Args.x, AlphaAt(j - 1), Args.d)]

\* armijo_alpha while it runs, and when it is over
ArmijoSteps ==
    Op = "armijo_alpha" =>
        /\ Status \in {"running", "return", "abort"}
        /\ Status = "running" =>
             /\ Value.trials <= Args.max_iter
             /\ Value.alpha = AlphaAt(Value.trials)
             /\ Value.evaluated = TrialPoints(Value.trials)
             /\ \A j \in 0..(Value.trials - 1) : ~Accepted(j)
        /\ Status = "return" =>
             /\ Log.trials \in 0..(Args.max_iter - 1)
             /\ Accepted(Log.trials)
             /\ \A j \in 0..(Log.trials - 1) : ~Accepted(j)
             /\ Value = PyFloat(AlphaAt(Log.trials))
             /\ Log.evaluated = TrialPoints(Log.trials + 1)
        /\ Status = "abort" =>
             /\ Out = bs_error_abort("Too many iterations")
             /\ \A j \in 0..(Args.max_iter - 1) : ~Accepted(j)

(* C26: armijo_alpha always terminates within max_iter trial steps: it returns
   alpha_init * beta^k for the smallest k in 0..max_iter-1 such that
   f(x + alpha_init * beta^k * d) < f(x) + tol, having evaluated f at exactly
   the trial points 0..k, and if there is no such k it aborts with
   'Too many iterations' and returns no step size. *)
C26_TerminatesAtSmallestK ==
    /\ []ArmijoSteps
    /\ (Op = "armijo_alpha" /\ Status = "running") ~>
           (Op = "armijo_alpha" /\ Status \in {"return", "abort"})

\* accepted at the third trial point, after two reductions of alpha
C26_Witness ==
    /\ Op = "armijo_alpha"
    /\ Returned(Out)
    /\ Log.trials = 2
    /\ Args.alpha_init = R(4, 1)
    /\ Args.beta = Half
    /\ Value = PyFloat(One)
    /\ Len(Log.evaluated) = 3

(* C30 as stated: acc_grad_descent makes at most maxiter iterations and then
   returns; the status it reports is determined by the gradient at the point
   it returns: it reports convergence (the status 0 that its messages call
   converged) exactly when the largest absolute element of the gradient at
   the returned point is below tol, whether the loop ended by the tolerance
   or by using up maxiter; a restart sets x and y to the previous x and theta
   to 1. *)
C30_Original ==
    Op = "acc_grad_descent" =>
        /\ Status \in {"running", "return"}
        /\ Status = "running" =>
             /\ Value.iter <= Args.maxiter
             /\ Value.restarted =>
                  Value.x = Value.xi /\ Value.y = Value.xi /\ Value.theta = One
        /\ Status = "return" =>
             /\ Log.iter <= Args.maxiter
             /\ (Value[2][2] = PyInt(0)) <=>
                    RLt(npmaxabs(grad_f(Value[2][1], Args.other_params)), Args.tol)

=============================================================================
